---- MODULE Spec2Model ----
(***************************************************************************)
(* Model of the typing-session engine of typa (src/src/app.rs): the        *)
(* keystroke alignment, scrolling and scoring engine, with the visual      *)
(* equivalence relation of src/src/utils/strings.rs and the word supply of *)
(* src/src/generator.                                                      *)
(*                                                                         *)
(* A character is a one-element string.  A Rust String / Vec<char> is a    *)
(* sequence of characters.  The App struct is the record variable app; a   *)
(* method taking &mut self is an operator from an App record to an App     *)
(* record, and a handler composes them in the order of the source.         *)
(* Time is measured in milliseconds on the variable now (Instant::now()).  *)
(***************************************************************************)
EXTENDS Integers, Sequences, FiniteSets, TLC

VARIABLES app, now, last, charges

vars == <<app, now, last, charges>>

(***************************************************************************)
(* Bounds of the model                                                     *)
(***************************************************************************)
\* accepted keystrokes per session explored by Spec
MaxKeys == 6
\* clock ticks explored
MaxTicks == 1
\* words produced by one initial batch (the source generates 100)
BatchCap == 3
\* keystrokes explored beyond the pre-typed prefix by SpecOverrun
OverrunKeys == 3

\* accepted keystrokes explored by SpecTimed
TimedKeys == 4
\* accepted keystrokes per session explored by SpecSession
SessionKeys == 1
\* accepted keystrokes per session explored by SpecPunct
PunctKeys == 4

\* accepted keystrokes per session explored by SpecClock
ClockKeys == 3
\* the clock of SpecClock stops at ClockTicks steps of at most 495 ms
ClockTicks == 5

\* SpecWrap: the longest text wrapped, in words, and the widest line
MaxWrapWords == 4

MaxWrapWidth == 5

\* one clock tick, in milliseconds
TickSteps == {1000}
\* the words the word list offers
\* clock advances of SpecClock, in milliseconds: a full second, the gap
\* end_test asks for before a final snapshot, and a shorter one
ClockSteps == {300, 495, 1000}
Dict == {<<"a">>, <<"a", "b">>}
\* the characters the keyboard offers
SP == " "
Keys == {"a", "b", SP}
\* terminal width (columns) at which a session starts: one word per visual line
StartWidths == {5}
\* terminal widths (columns) the terminal is resized to in SpecSession
Widths == {5, 8}
\* word counts of Words mode
WordCounts == {1, 2}
\* a plain word and the em dash the generator inserts as a word of its own,
\* and a keyboard that offers the plain marks beside the curly apostrophe
PunctDict == {<<"a">>, <<"U+2014">>}
PunctKeyboard == {"'", "U+2019", "-", "a", SP}

(***************************************************************************)
(* Program constants                                                       *)
(***************************************************************************)
NUL == "NUL"
\* Option<Instant>: None, or Some(t) with t the instant in ms
None == <<>>
Some(t) == <<t>>
\* u64::MAX, scaled to the width of the checker's integers
U64MAX == 2147483647
MaxOverrun == 19
PendingThreshold == 100
SnapshotGapMs == 495
InitialWidth == 80

(***************************************************************************)
(* Sequence helpers (Rust iterator adaptors)                               *)
(***************************************************************************)
Take(s, n) == SubSeq(s, 1, IF n < Len(s) THEN n ELSE Len(s))

Drop(s, n) == SubSeq(s, (IF n < Len(s) THEN n ELSE Len(s)) + 1, Len(s))

Min(x, y) == IF x < y THEN x ELSE y

Max(x, y) == IF x > y THEN x ELSE y

SatSub(x, y) == IF x > y THEN x - y ELSE 0

\* iter().filter(|&&x| x == v).count()
Count(s, v) == Cardinality({i \in 1..Len(s) : s[i] = v})

RECURSIVE SplitFrom(_, _, _, _)
SplitFrom(s, i, cur, acc) ==
    IF i > Len(s) THEN Append(acc, cur)
    ELSE IF s[i] = SP THEN SplitFrom(s, i + 1, <<>>, Append(acc, cur))
    ELSE SplitFrom(s, i + 1, Append(cur, s[i]), acc)

\* str::split(' '): one segment more than there are spaces
Split(s) == SplitFrom(s, 1, <<>>, <<>>)

RECURSIVE Join(_)
Join(ws) ==
    IF Len(ws) = 0 THEN <<>>
    ELSE IF Len(ws) = 1 THEN ws[1]
    ELSE ws[1] \o <<SP>> \o Join(Tail(ws))

EndsWithSpace(s) == Len(s) > 0 /\ s[Len(s)] = SP

(***************************************************************************)
(* src/src/utils/strings.rs                                                *)
(***************************************************************************)
is_quote(c) == c \in {"\"", "U+201C", "U+201D", "U+201E", "'", "U+2019", "U+2018", "U+02BC", "U+1FBD"}

is_dash(c) == c \in {"-", "U+2013", "U+2014", "U+2010"}

is_comma_like_or_apostrophe(c) == c \in {",", "U+201A", "'"}

is_comma_like(c) == c \in {",", "U+201A"}

are_characters_visually_equal(c1, c2) ==
    \/ c1 = c2
    \/ (is_quote(c1) /\ is_quote(c2))
    \/ (is_dash(c1) /\ is_dash(c2))
    \/ (is_comma_like(c1) /\ is_comma_like(c2))

\* App::words_visually_equal
words_visually_equal(typed, target) ==
    /\ Len(typed) = Len(target)
    /\ \A i \in 1..Len(typed) : are_characters_visually_equal(typed[i], target[i])

(***************************************************************************)
(* Viewport / wrap manager                                                 *)
(***************************************************************************)
RECURSIVE WrapWords(_, _, _, _, _, _)
WrapWords(ws, i, width, lines, current_line, current_width) ==
    IF i > Len(ws)
    THEN IF current_line # <<>> THEN Append(lines, current_line) ELSE lines
    ELSE LET word == ws[i]
             word_len == Len(word)
             space_before == IF current_width = 0 THEN 0 ELSE 1
         IN IF current_width + space_before + word_len <= width
            THEN WrapWords(ws, i + 1, width, lines,
                           (IF current_width > 0 THEN Append(current_line, SP) ELSE current_line) \o word,
                           (IF current_width > 0 THEN current_width + 1 ELSE current_width) + word_len)
            ELSE WrapWords(ws, i + 1, width,
                           IF current_line # <<>> THEN Append(lines, current_line) ELSE lines,
                           word, word_len)

wrap_into_lines_loose(text, width) == WrapWords(Split(text), 1, width + 1, <<>>, <<>>, 0)

wrap_into_lines(text, width) == WrapWords(Split(text), 1, width, <<>>, <<>>, 0)

RECURSIVE LineIdxFrom(_, _, _, _)
LineIdxFrom(lines, cursor_pos, i, running) ==
    IF i > Len(lines) THEN (IF Len(lines) = 0 THEN 0 ELSE Len(lines) - 1)
    ELSE IF cursor_pos < running + Len(lines[i]) + 1 THEN i - 1
    ELSE LineIdxFrom(lines, cursor_pos, i + 1, running + Len(lines[i]) + 1)

\* 0-based index of the visual line holding the cursor
line_idx_for_cursor(lines, cursor_pos) == LineIdxFrom(lines, cursor_pos, 1, 0)

layout_width(a) == (a.terminal_width * 80) \div 100

recalculate_lines(a) ==
    [a EXCEPT !.visual_lines = wrap_into_lines(a.display_string, SatSub(layout_width(a), 2))]

will_cause_visual_wrap(a, extra_char, is_extra) ==
    LET candidate_width == IF is_extra THEN layout_width(a) ELSE SatSub(layout_width(a), 2)
        current_line_idx == line_idx_for_cursor(a.visual_lines, Len(a.aligned_input))
        candidate_display == Append(a.display_string, extra_char)
        candidate_lines == wrap_into_lines(candidate_display, candidate_width)
        candidate_line_idx == line_idx_for_cursor(candidate_lines, Len(a.aligned_input) + 1)
    IN IF is_extra THEN candidate_line_idx > current_line_idx
       ELSE candidate_line_idx >= 3

(***************************************************************************)
(* Alignment builder                                                       *)
(***************************************************************************)
RECURSIVE RunEnd(_, _)
\* first index >= i of inp that holds a space, or Len(inp) + 1
RunEnd(inp, i) ==
    IF i > Len(inp) \/ inp[i] = SP THEN i ELSE RunEnd(inp, i + 1)

MissedIgnored(missed_chars, word_idx) == 0

Missed(missed_chars, word_idx) ==
    IF word_idx \in DOMAIN missed_chars THEN missed_chars[word_idx] ELSE 0

NulsAsSpaces(n) == [i \in 1..n |-> SP]

Nuls(n) == [i \in 1..n |-> NUL]

TruesButLast(n) == [i \in 1..n |-> i < n]

Trues(n) == [i \in 1..n |-> TRUE]

RECURSIVE SyncLoop(_, _, _, _, _, _, _, _, _)
SyncLoop(clean_chars, input_chars, missed_chars, clean_idx, input_idx, word_idx, new_display, new_mask, new_aligned) ==
    IF clean_idx > Len(clean_chars)
    THEN [display |-> new_display, mask |-> new_mask, aligned |-> new_aligned]
    ELSE IF clean_chars[clean_idx] = SP
    THEN LET stop == RunEnd(input_chars, input_idx)
             extras == SubSeq(input_chars, input_idx, stop - 1)
             d1 == new_display \o extras
             m1 == new_mask \o Trues(Len(extras))
             a1 == new_aligned \o extras
         IN IF stop <= Len(input_chars)
            THEN SyncLoop(clean_chars, input_chars, missed_chars, clean_idx + 1, stop + 1, word_idx + 1,
                          Append(d1, SP), Append(m1, FALSE),
                          Append(a1 \o Nuls(Missed(missed_chars, word_idx)), SP))
            ELSE SyncLoop(clean_chars, input_chars, missed_chars, clean_idx + 1, stop, word_idx,
                          Append(d1, SP), Append(m1, FALSE), a1)
    ELSE IF input_idx <= Len(input_chars) /\ input_chars[input_idx] # SP
    THEN SyncLoop(clean_chars, input_chars, missed_chars, clean_idx + 1, input_idx + 1, word_idx,
                  Append(new_display, clean_chars[clean_idx]), Append(new_mask, FALSE),
                  Append(new_aligned, input_chars[input_idx]))
    ELSE SyncLoop(clean_chars, input_chars, missed_chars, clean_idx + 1, input_idx, word_idx,
                  Append(new_display, clean_chars[clean_idx]), Append(new_mask, FALSE), new_aligned)

StoreAlignmentStaleCount(a, r) ==
    recalculate_lines([a EXCEPT !.display_string = r.display,
                                !.display_mask = r.mask,
                                !.aligned_input = r.aligned,
                                !.cursor_idx = Len(r.aligned)])

\* the assignments that end sync_display_text, r being what its loop built
StoreAlignment(a, r) ==
    recalculate_lines([a EXCEPT !.display_string = r.display,
                                !.display_mask = r.mask,
                                !.aligned_input = r.aligned,
                                !.extra_char_count = Count(r.mask, TRUE),
                                !.cursor_idx = Len(r.aligned)])

sync_display_text(a) ==
    StoreAlignment(a, SyncLoop(a.word_stream_string, a.input, a.missed_chars,
                               1, 1, 0, <<>>, <<>>, <<>>))

(***************************************************************************)
(* Word scoring                                                            *)
(***************************************************************************)
MaskAt(mask, k) == IF k <= Len(mask) THEN mask[k] ELSE FALSE

InputAt(input_chars, k) == IF k <= Len(input_chars) THEN input_chars[k] ELSE NUL

RECURSIVE WordEnd(_, _, _)
\* first index >= i holding a non-extra space, or Len(display_chars) + 1
WordEnd(display_chars, mask, i) ==
    IF i > Len(display_chars) THEN i
    ELSE IF ~MaskAt(mask, i) /\ display_chars[i] = SP THEN i
    ELSE WordEnd(display_chars, mask, i + 1)

ZeroStats == [acc_cor |-> 0, acc_inc |-> 0, raw_cor |-> 0, raw_inc |-> 0, raw_ext |-> 0, raw_mis |-> 0]

\* classification of position k: "ext", "mis", "inc" or "ok"
Classify(input_chars, display_chars, mask, k) ==
    IF MaskAt(mask, k) THEN "ext"
    ELSE IF InputAt(input_chars, k) = NUL THEN "mis"
    ELSE IF ~are_characters_visually_equal(InputAt(input_chars, k), display_chars[k]) THEN "inc"
    ELSE "ok"

\* the classes of the positions i .. word_end - 1, which hold one word
WordClasses(input_chars, display_chars, mask, i, word_end) ==
    [k \in i..(word_end - 1) |-> Classify(input_chars, display_chars, mask, k)]

NumOf(cls, cl) == Cardinality({k \in DOMAIN cls : cls[k] = cl})

AddWordNoSpaceCredit(st, cls, has_space) ==
    LET word_has_error == \E k \in DOMAIN cls : cls[k] # "ok"
        space_fault == IF has_space /\ word_has_error THEN 1 ELSE 0
    IN [acc_cor |-> st.acc_cor - NumOf(cls, "mis") - NumOf(cls, "inc") - space_fault,
        acc_inc |-> st.acc_inc + NumOf(cls, "ext") + NumOf(cls, "inc") + space_fault,
        raw_cor |-> st.raw_cor + (IF word_has_error THEN 0 ELSE NumOf(cls, "ok")),
        raw_inc |-> st.raw_inc + NumOf(cls, "inc"),
        raw_ext |-> st.raw_ext + NumOf(cls, "ext"),
        raw_mis |-> st.raw_mis + NumOf(cls, "mis")]

AddWordLenient(st, cls, has_space) ==
    LET word_has_error == \E k \in DOMAIN cls : cls[k] # "ok"
        space_fault == IF has_space /\ word_has_error THEN 1 ELSE 0
    IN [acc_cor |-> st.acc_cor - NumOf(cls, "mis") - NumOf(cls, "inc") - space_fault,
        acc_inc |-> st.acc_inc + NumOf(cls, "ext") + NumOf(cls, "inc") + space_fault,
        raw_cor |-> st.raw_cor + NumOf(cls, "ok")
                     + (IF has_space /\ ~word_has_error THEN 1 ELSE 0),
        raw_inc |-> st.raw_inc + NumOf(cls, "inc"),
        raw_ext |-> st.raw_ext + NumOf(cls, "ext"),
        raw_mis |-> st.raw_mis + NumOf(cls, "mis")]

\* the totals st after one more word, whose positions have the classes cls
\* and which ends with a boundary space iff has_space
AddWord(st, cls, has_space) ==
    LET word_has_error == \E k \in DOMAIN cls : cls[k] # "ok"
        space_fault == IF has_space /\ word_has_error THEN 1 ELSE 0
    IN [acc_cor |-> st.acc_cor - NumOf(cls, "mis") - NumOf(cls, "inc") - space_fault,
        acc_inc |-> st.acc_inc + NumOf(cls, "ext") + NumOf(cls, "inc") + space_fault,
        raw_cor |-> st.raw_cor + (IF word_has_error THEN 0 ELSE NumOf(cls, "ok"))
                     + (IF has_space /\ ~word_has_error THEN 1 ELSE 0),
        raw_inc |-> st.raw_inc + NumOf(cls, "inc"),
        raw_ext |-> st.raw_ext + NumOf(cls, "ext"),
        raw_mis |-> st.raw_mis + NumOf(cls, "mis")]

RECURSIVE ScoreWords(_, _, _, _, _)
ScoreWords(input_chars, display_chars, mask, i, st) ==
    IF i > Len(display_chars) THEN st
    ELSE LET word_end == WordEnd(display_chars, mask, i)
             has_space == word_end <= Len(display_chars)
         IN ScoreWords(input_chars, display_chars, mask,
                       IF has_space THEN word_end + 1 ELSE word_end,
                       AddWord(st, WordClasses(input_chars, display_chars, mask, i, word_end),
                               has_space))

calculate_custom_stats_for_slice(input_chars, display_str, mask) ==
    ScoreWords(input_chars, display_str, mask, 1,
               [ZeroStats EXCEPT !.acc_cor = Count(mask, FALSE)])

\* the retired totals of a plus the totals vis of the visible window
AddVisible(a, vis) ==
    [correct |-> a.st_correct + vis.raw_cor,
     incorrect |-> a.st_incorrect + vis.raw_inc,
     extra |-> a.st_extra + vis.raw_ext,
     missed |-> a.st_missed + vis.raw_mis]

resolved_char_stats(a) ==
    AddVisible(a, calculate_custom_stats_for_slice(a.aligned_input, a.display_string,
                                                   a.display_mask))

LastSpace(s) ==
    LET idx == {i \in 1..Len(s) : s[i] = SP}
    IN IF idx = {} THEN 0 ELSE CHOOSE i \in idx : \A j \in idx : j <= i

\* the length of the prefix of aligned_input that holds completed words
CompletedLen(a) ==
    IF EndsWithSpace(a.aligned_input) \/ a.aligned_input = <<>>
    THEN Len(a.aligned_input)
    ELSE LastSpace(a.aligned_input)

\* the characters of the word being typed that count as correct
WordCorrectChars(current_word_input, target_word) ==
    IF \E i \in 1..Len(current_word_input) :
          \/ i > Len(target_word)
          \/ ~are_characters_visually_equal(current_word_input[i], target_word[i])
    THEN 0
    ELSE Len(current_word_input)

CurrentWordCorrectChars(a) ==
    LET current_word_idx == Len(Split(a.input)) - 1
    IN IF EndsWithSpace(a.aligned_input) \/ a.aligned_input = <<>>
          \/ Drop(a.input, LastSpace(a.input)) = <<>>
          \/ ~(current_word_idx < Len(a.word_stream))
       THEN 0
       ELSE WordCorrectChars(Drop(a.input, LastSpace(a.input)),
                             a.word_stream[current_word_idx + 1].text)

calculate_live_correct_chars(a) ==
    calculate_custom_stats_for_slice(Take(a.aligned_input, CompletedLen(a)),
                                     Take(a.display_string, CompletedLen(a)),
                                     Take(a.display_mask, CompletedLen(a))).raw_cor
        + CurrentWordCorrectChars(a)

(***************************************************************************)
(* Word supply (src/src/generator)                                         *)
(***************************************************************************)
Time(limit) == [kind |-> "Time", n |-> limit]

Words(count) == [kind |-> "Words", n |-> count]

\* the modes of the sessions: a time limit in seconds, or a word count
Modes == {Time(1)} \cup {Words(c) : c \in WordCounts}

\* Word::new(text, index)
Word(text, index) == [text |-> text, index |-> index, state |-> "Pending"]

\* the batches generate_time_batch / generate_count_batch can return
InitialBatches(mode) ==
    LET limit == IF mode.kind = "Time" THEN BatchCap ELSE Min(mode.n, BatchCap)
    IN [1..limit -> Dict]

update_stream_string(a) ==
    [a EXCEPT !.word_stream_string = Join([i \in 1..Len(a.word_stream) |-> a.word_stream[i].text])]

\* raw_stream is the batch the generator drew
generate_initial_words(a, raw_stream) ==
    LET word_stream == [i \in 1..Len(raw_stream) |->
                           [Word(raw_stream[i], i - 1) EXCEPT
                               !.state = IF i = 1 THEN "Active" ELSE "Pending"]]
    IN sync_display_text(update_stream_string(
           [a EXCEPT !.word_stream = word_stream,
                     !.generated_count = IF a.mode.kind = "Words" THEN Len(raw_stream) ELSE 0,
                     !.next_word_index = Len(word_stream)]))

\* new_word is the word the generator draws if it is asked for one
add_one_word(a, new_word) ==
    IF a.mode.kind = "Words" /\ ~(a.generated_count < a.mode.n)
    THEN a
    ELSE update_stream_string(
             [a EXCEPT !.word_stream = Append(@, Word(new_word, a.next_word_index)),
                       !.next_word_index = @ + 1,
                       !.generated_count = IF a.mode.kind = "Words" THEN @ + 1 ELSE @])

(***************************************************************************)
(* Session metrics                                                         *)
(***************************************************************************)
\* a snapshot value v recorded at t ms stands for the rate v / 5 * 60 / (t / 1000)
push_snapshot(a, elapsed_ms) ==
    IF elapsed_ms <= 0 THEN a
    ELSE LET total_correct_chars == a.st_correct + calculate_live_correct_chars(a)
             errors_this_second == SatSub(a.live_incorrect_keystrokes, a.prev_incorrect_keystrokes)
         IN [a EXCEPT !.prev_incorrect_keystrokes = a.live_incorrect_keystrokes,
                      !.wpm_history = Append(@, [t |-> elapsed_ms, v |-> total_correct_chars]),
                      !.raw_wpm_history = Append(@, [t |-> elapsed_ms, v |-> a.gross_char_count]),
                      !.errors_history = Append(@, [t |-> elapsed_ms, v |-> errors_this_second])]

record_snapshot_if_needed_repeating(a, t) ==
    IF a.state # "Running" \/ a.start_time = None THEN a
    ELSE LET elapsed_ms == t - a.start_time[1]
             current_second == elapsed_ms \div 1000
         IN IF current_second >= 1
            THEN push_snapshot([a EXCEPT !.last_snapshot_second = current_second],
                               current_second * 1000)
            ELSE a

record_snapshot_if_needed(a, t) ==
    IF a.state # "Running" \/ a.start_time = None THEN a
    ELSE LET elapsed_ms == t - a.start_time[1]
             current_second == elapsed_ms \div 1000
         IN IF current_second >= 1
               /\ (a.last_snapshot_second = U64MAX \/ current_second > a.last_snapshot_second)
            THEN push_snapshot([a EXCEPT !.last_snapshot_second = current_second],
                               current_second * 1000)
            ELSE a

\* the standard deviation is kept symbolic: it is a function of the net series
calculate_consistency(a) ==
    IF Len(a.wpm_history) < 2 THEN <<"full">> ELSE <<"stddev", a.wpm_history>>

\* the duration end_test takes from start_time
Elapsed(a, t) == IF a.start_time = None THEN 1000 ELSE t - a.start_time[1]

FinishDisplayUncut(a) == [a EXCEPT !.state = "Finished"]

\* end_test: the new state and, in Time mode, the cut of the unreached text
FinishDisplay(a) ==
    IF a.mode.kind = "Time" /\ Len(a.aligned_input) < Len(a.display_string)
    THEN [a EXCEPT !.state = "Finished",
                   !.display_string = Take(@, Len(a.aligned_input)),
                   !.display_mask = Take(@, Len(a.aligned_input))]
    ELSE [a EXCEPT !.state = "Finished"]

\* end_test: the final figures
FinalScores(a, duration_ms, total_correct_chars, total_keystrokes) ==
    [a EXCEPT !.final_raw_wpm = [chars |-> a.gross_char_count, ms |-> duration_ms],
              !.final_wpm = [chars |-> total_correct_chars, ms |-> duration_ms],
              !.final_accuracy = IF total_keystrokes > 0
                                 THEN [num |-> a.live_correct_keystrokes, den |-> total_keystrokes]
                                 ELSE [num |-> 0, den |-> 1],
              !.final_time = duration_ms,
              !.show_ui = TRUE]

FinalSnapshotLate(a, duration_ms) ==
    LET last_full_ms == IF a.last_snapshot_second = U64MAX THEN 0
                        ELSE a.last_snapshot_second * 1000
    IN IF duration_ms - last_full_ms > SnapshotGapMs THEN push_snapshot(a, duration_ms) ELSE a

\* end_test: the snapshot of the last partial second
FinalSnapshot(a, duration_ms) ==
    LET last_full_ms == IF a.last_snapshot_second = U64MAX THEN 0
                        ELSE a.last_snapshot_second * 1000
    IN IF duration_ms - last_full_ms >= SnapshotGapMs THEN push_snapshot(a, duration_ms) ELSE a

StoreConsistency(a) == [a EXCEPT !.final_consistency = calculate_consistency(a)]

\* end_test below the change of state
EndWith(a, duration_ms) ==
    StoreConsistency(FinalSnapshot(
        FinalScores(a, duration_ms, a.st_correct + calculate_live_correct_chars(a),
                    a.live_correct_keystrokes + a.live_incorrect_keystrokes),
        duration_ms))

end_test(a, t) == EndWith(FinishDisplay(a), Elapsed(a, t))

(***************************************************************************)
(* Scroll evictor                                                          *)
(***************************************************************************)
\* the word-keyed collections re-based by the number of retired words
RemapMissedUnshifted(missed_chars, tokens_scrolled) == missed_chars

RemapMissedDropping(missed_chars, tokens_scrolled) == <<>>

RemapMissed(missed_chars, tokens_scrolled) ==
    [k \in {j - tokens_scrolled : j \in {i \in DOMAIN missed_chars : i >= tokens_scrolled}}
        |-> missed_chars[k + tokens_scrolled]]

RemapProcessedUnshifted(processed_word_errors, tokens_scrolled) == processed_word_errors

RemapProcessedDropping(processed_word_errors, tokens_scrolled) == {}

RemapProcessed(processed_word_errors, tokens_scrolled) ==
    {k - tokens_scrolled : k \in {i \in processed_word_errors : i >= tokens_scrolled}}

\* the number of leading display positions delete_first_visual_line retires
CharsToRemoveVisual(a) ==
    LET visual_char_count == Len(a.visual_lines[1])
    IN IF Len(a.display_string) > visual_char_count /\ a.display_string[visual_char_count + 1] = SP
       THEN visual_char_count + 1
       ELSE visual_char_count

\* delete_first_visual_line: the totals st of the retired line join the counters
AddRetiredNet(a, st) ==
    [a EXCEPT !.st_correct = @ + st.raw_cor,
              !.st_incorrect = @ + st.raw_inc,
              !.st_extra = @ + st.raw_ext,
              !.st_missed = @ + st.raw_mis,
              !.acc_score_correct = @ + st.acc_cor - st.acc_inc,
              !.acc_score_incorrect = Max(@ + st.acc_inc, 0),
              !.uncorrected_errors_scrolled = @ + st.raw_inc + st.raw_mis + st.raw_ext]

AddRetired(a, st) ==
    [a EXCEPT !.st_correct = @ + st.raw_cor,
              !.st_incorrect = @ + st.raw_inc,
              !.st_extra = @ + st.raw_ext,
              !.st_missed = @ + st.raw_mis,
              !.acc_score_correct = Max(@ + st.acc_cor, 0),
              !.acc_score_incorrect = Max(@ + st.acc_inc, 0),
              !.uncorrected_errors_scrolled = @ + st.raw_inc + st.raw_mis + st.raw_ext]

\* delete_first_visual_line: the word-keyed state loses its first words
DropWordsKeepingFurthest(a, tokens_scrolled) ==
    IF tokens_scrolled > 0
    THEN [a EXCEPT !.scrolled_word_count = @ + tokens_scrolled,
                   !.word_stream = Drop(@, tokens_scrolled),
                   !.missed_chars = RemapMissed(@, tokens_scrolled),
                   !.processed_word_errors = RemapProcessed(@, tokens_scrolled)]
    ELSE a

DropWords(a, tokens_scrolled) ==
    IF tokens_scrolled > 0
    THEN [a EXCEPT !.scrolled_word_count = @ + tokens_scrolled,
                   !.word_stream = Drop(@, tokens_scrolled),
                   !.furthest_word_idx = SatSub(@, tokens_scrolled),
                   !.missed_chars = RemapMissed(@, tokens_scrolled),
                   !.processed_word_errors = RemapProcessed(@, tokens_scrolled)]
    ELSE a

RetireChunkByDisplay(a, aligned_chunk, display_chunk, mask_chunk) ==
    [DropWords(AddRetired(a, calculate_custom_stats_for_slice(
                                 aligned_chunk, display_chunk, mask_chunk)),
               Count(aligned_chunk, SP))
        EXCEPT !.word_stream_string = Drop(@, Len(mask_chunk)),
               !.input = Drop(@, Len(aligned_chunk) - Count(aligned_chunk, NUL))]

RetireChunk(a, aligned_chunk, display_chunk, mask_chunk) ==
    [DropWords(AddRetired(a, calculate_custom_stats_for_slice(
                                 aligned_chunk, display_chunk, mask_chunk)),
               Count(aligned_chunk, SP))
        EXCEPT !.word_stream_string = Drop(@, Count(mask_chunk, FALSE)),
               !.input = Drop(@, Len(aligned_chunk) - Count(aligned_chunk, NUL))]

RetireChars(a, chars_to_remove_visual) ==
    RetireChunk(a, Take(a.aligned_input, Min(chars_to_remove_visual, Len(a.aligned_input))),
                Take(a.display_string, chars_to_remove_visual),
                Take(a.display_mask, chars_to_remove_visual))

delete_first_visual_line(a) ==
    IF a.visual_lines = <<>> THEN a
    ELSE sync_display_text(RetireChars(a, CharsToRemoveVisual(a)))

RECURSIVE ScrollLine(_, _, _, _)
ScrollLine(lines, cursor, i, running_char_count) ==
    IF i > Len(lines) THEN 0
    ELSE IF cursor < running_char_count + Len(lines[i]) + 1 THEN i - 1
    ELSE ScrollLine(lines, cursor, i + 1, running_char_count + Len(lines[i]) + 1)

ScrollTriggeredLate(a) == ScrollLine(a.visual_lines, Len(a.aligned_input), 1, 0) >= 3

\* the guard of check_scroll_trigger
ScrollTriggered(a) == ScrollLine(a.visual_lines, Len(a.aligned_input), 1, 0) >= 2

check_scroll_trigger(a) == IF ScrollTriggered(a) THEN delete_first_visual_line(a) ELSE a

(***************************************************************************)
(* Keystroke handling                                                      *)
(***************************************************************************)
\* the condition under which handle_space_press charges the structural error
ChargesWordError(a, word_idx, user_current_word) ==
    LET target_word == a.word_stream[word_idx + 1].text
        is_word_error == ~words_visually_equal(user_current_word, target_word)
        extra_len_penalty == SatSub(Len(user_current_word), Len(target_word))
    IN word_idx \notin a.processed_word_errors /\ (is_word_error \/ extra_len_penalty > 0)

handle_space_press_forgetting(a, word_idx, user_current_word) ==
    IF ChargesWordError(a, word_idx, user_current_word)
    THEN [a EXCEPT !.total_errors_ever =
                       @ + (IF words_visually_equal(user_current_word, a.word_stream[word_idx + 1].text)
                            THEN 0 ELSE 1)
                         + SatSub(Len(user_current_word), Len(a.word_stream[word_idx + 1].text)),
                   !.processed_word_errors = @ \cup {word_idx}]
    ELSE a

handle_space_press(a, word_idx, user_current_word) ==
    LET target_word == a.word_stream[word_idx + 1].text
        is_word_error == ~words_visually_equal(user_current_word, target_word)
        user_chars == Len(user_current_word)
        target_chars == Len(target_word)
        extra_len_penalty == SatSub(user_chars, target_chars)
        a1 == IF ChargesWordError(a, word_idx, user_current_word)
              THEN [a EXCEPT !.total_errors_ever = @ + (IF is_word_error THEN 1 ELSE 0) + extra_len_penalty,
                             !.processed_word_errors = @ \cup {word_idx}]
              ELSE a
    IN IF user_chars < target_chars
       THEN [a1 EXCEPT !.missed_chars =
                [k \in DOMAIN @ \cup {word_idx} |->
                    IF k = word_idx THEN target_chars - user_chars ELSE @[k]]]
       ELSE a1

SetWordState(word_stream, idx, st) ==
    IF idx < Len(word_stream) THEN [word_stream EXCEPT ![idx + 1].state = st] ELSE word_stream

\* on_word_finished: the finished word is Typed, the next one Active
MarkFinished(a, finished_idx) ==
    [a EXCEPT !.word_stream =
        SetWordState(SetWordState(@, finished_idx, "Typed"), finished_idx + 1, "Active")]

PendingAfter(a, next_idx) ==
    Cardinality({i \in (next_idx + 1)..Len(a.word_stream) : a.word_stream[i].state = "Pending"})

ReplenishAlways(a, finished_idx, new_word) ==
    IF PendingAfter(a, finished_idx + 1) < PendingThreshold
    THEN add_one_word([a EXCEPT !.furthest_word_idx = Max(@, finished_idx + 1)], new_word)
    ELSE [a EXCEPT !.furthest_word_idx = Max(@, finished_idx + 1)]

\* on_word_finished: a word finished for the first time may draw a new word
Replenish(a, finished_idx, new_word) ==
    IF finished_idx >= a.furthest_word_idx
    THEN IF PendingAfter(a, finished_idx + 1) < PendingThreshold
         THEN add_one_word([a EXCEPT !.furthest_word_idx = finished_idx + 1], new_word)
         ELSE [a EXCEPT !.furthest_word_idx = finished_idx + 1]
    ELSE a

on_word_finished(a, new_word) ==
    Replenish(MarkFinished(a, SatSub(Len(Split(a.input)), 2)),
              SatSub(Len(Split(a.input)), 2), new_word)

check_test_completion_after_space(a, t) ==
    IF a.mode.kind \in {"Words", "Quote"} /\ EndsWithSpace(a.input)
          /\ Len(Split(a.input)) > Len(Split(a.word_stream_string))
    THEN end_test(a, t)
    ELSE a

check_test_completion(a, t) ==
    IF a.mode.kind \in {"Words", "Quote"}
    THEN LET effective_len == SatSub(Len(a.aligned_input), a.extra_char_count)
             target_words == Split(a.word_stream_string)
             input_words == Split(a.input)
             last_word_index == Len(target_words)
             last_input_word == IF last_word_index <= Len(input_words)
                                THEN input_words[last_word_index] ELSE <<>>
         IN IF effective_len < Len(a.word_stream_string) THEN a
            ELSE IF last_input_word = target_words[last_word_index] THEN end_test(a, t)
            ELSE a
    ELSE a

RejectsOneLate(a, c) ==
    LET segs == Split(a.input)
        word_idx == Len(segs) - 1
        user_current_word == segs[Len(segs)]
        target_char_count == Len(a.word_stream[word_idx + 1].text)
        user_char_count == Len(user_current_word)
    IN /\ word_idx < Len(a.word_stream)
       /\ \/ c = SP /\ user_current_word = <<>>
          \/ user_char_count > target_char_count + MaxOverrun /\ c # SP
          \/ c # SP /\ will_cause_visual_wrap(a, c, user_char_count >= target_char_count)

\* the three early returns of on_key that drop the keystroke
Rejects(a, c) ==
    LET segs == Split(a.input)
        word_idx == Len(segs) - 1
        user_current_word == segs[Len(segs)]
        target_char_count == Len(a.word_stream[word_idx + 1].text)
        user_char_count == Len(user_current_word)
    IN /\ word_idx < Len(a.word_stream)
       /\ \/ c = SP /\ user_current_word = <<>>
          \/ user_char_count >= target_char_count + MaxOverrun /\ c # SP
          \/ c # SP /\ will_cause_visual_wrap(a, c, user_char_count >= target_char_count)

IsKeystrokeCorrectRaw(a, c) ==
    LET segs == Split(a.input)
        word_idx == Len(segs) - 1
        user_current_word == segs[Len(segs)]
        target_word == a.word_stream[word_idx + 1].text
    IN IF word_idx < Len(a.word_stream)
       THEN IF c = SP THEN user_current_word = target_word
            ELSE IF Len(user_current_word) < Len(target_word)
                 THEN c = target_word[Len(user_current_word) + 1]
                 ELSE FALSE
       ELSE FALSE

IsKeystrokeCorrect(a, c) ==
    LET segs == Split(a.input)
        word_idx == Len(segs) - 1
        user_current_word == segs[Len(segs)]
        target_word == a.word_stream[word_idx + 1].text
    IN IF word_idx < Len(a.word_stream)
       THEN IF c = SP THEN words_visually_equal(user_current_word, target_word)
            ELSE IF Len(user_current_word) < Len(target_word)
                 THEN are_characters_visually_equal(c, target_word[Len(user_current_word) + 1])
                 ELSE FALSE
       ELSE FALSE

\* on_key: the first keystroke of a session starts the clock
StartClock(a, t) ==
    IF a.state = "Waiting" THEN [a EXCEPT !.start_time = Some(t), !.state = "Running"] ELSE a

CurrentWordIdx(a) == Len(Split(a.input)) - 1

CurrentWord(a) == Split(a.input)[Len(Split(a.input))]

Dropped(a) ==
    [app |-> a, outcome |-> "rejected", evicted |-> FALSE, before |-> None,
     charged |-> {}, closed |-> {}]

CountKeystrokeSilent(a, is_keystroke_correct) ==
    [a EXCEPT !.show_ui = FALSE,
              !.live_correct_keystrokes = IF is_keystroke_correct THEN @ + 1 ELSE @,
              !.live_incorrect_keystrokes = IF is_keystroke_correct THEN @ ELSE @ + 1,
              !.total_errors_ever = IF is_keystroke_correct THEN @ ELSE @ + 1]

CountKeystrokeCharging(a, is_keystroke_correct) ==
    [a EXCEPT !.show_ui = FALSE,
              !.gross_char_count = @ + 1,
              !.live_correct_keystrokes = IF is_keystroke_correct THEN @ + 1 ELSE @,
              !.live_incorrect_keystrokes = IF is_keystroke_correct THEN @ ELSE @ + 1,
              !.total_errors_ever = @ + 1]

CountKeystroke(a, is_keystroke_correct) ==
    [a EXCEPT !.show_ui = FALSE,
              !.gross_char_count = @ + 1,
              !.live_correct_keystrokes = IF is_keystroke_correct THEN @ + 1 ELSE @,
              !.live_incorrect_keystrokes = IF is_keystroke_correct THEN @ ELSE @ + 1,
              !.total_errors_ever = IF is_keystroke_correct THEN @ ELSE @ + 1]

SpaceStep(a, c) ==
    IF CurrentWordIdx(a) < Len(a.word_stream) /\ c = SP
    THEN handle_space_press(a, CurrentWordIdx(a), CurrentWord(a))
    ELSE a

\* the character joins RawInput; a space finishes a word
WordStep(a, c, new_word) ==
    IF c = SP THEN on_word_finished([a EXCEPT !.input = Append(@, c)], new_word)
    ELSE [a EXCEPT !.input = Append(@, c)]

\* what an accepted keystroke returns: a3 is the App when the keystroke was
\* counted, a7 the App after sync_display_text
Accepted(a3, a7, c, t) ==
    LET evicted == ScrollTriggered(a7) /\ a7.visual_lines # <<>>
        closes == CurrentWordIdx(a3) < Len(a3.word_stream) /\ c = SP
    IN [app |-> check_test_completion(check_scroll_trigger(a7), t),
        outcome |-> "accepted", evicted |-> evicted,
        before |-> IF evicted THEN a7 ELSE None,
        charged |-> IF closes /\ ChargesWordError(a3, CurrentWordIdx(a3), CurrentWord(a3))
                    THEN {a3.scrolled_word_count + CurrentWordIdx(a3)} ELSE {},
        closed |-> IF closes THEN {a3.scrolled_word_count + CurrentWordIdx(a3)} ELSE {}]

AcceptKey(a3, c, t, new_word) ==
    Accepted(a3, sync_display_text(WordStep(SpaceStep(a3, c), c, new_word)), c, t)

KeyStep(a2, c, t, new_word) ==
    IF Rejects(a2, c) THEN Dropped(a2)
    ELSE AcceptKey(CountKeystroke(a2, IsKeystrokeCorrect(a2, c)), c, t, new_word)

\* on_key(c) at instant t, below its first line; new_word is what the
\* generator draws if asked.  The result carries the new App and what the call
\* did on the way: whether the keystroke was dropped, the App as it was when
\* the first visual line was retired, and the words (numbered from the start of
\* the session) that were closed and charged.
KeyBody(a, c, t, new_word) ==
    KeyStep(record_snapshot_if_needed(StartClock(a, t), t), c, t, new_word)

on_key_unguarded(a, c, t, new_word) == KeyBody(a, c, t, new_word)

on_key(a, c, t, new_word) ==
    IF a.state = "Finished"
    THEN [app |-> a, outcome |-> "finished", evicted |-> FALSE, before |-> None,
          charged |-> {}, closed |-> {}]
    ELSE KeyBody(a, c, t, new_word)

\* TRUE when on_backspace returns before touching anything
BackspaceBlocked(a) ==
    LET segments == Split(a.input)
        last_completed_idx == Len(segments) - 2
    IN /\ EndsWithSpace(a.input)
       /\ Len(segments) >= 2
       /\ last_completed_idx < Len(a.word_stream)
       /\ segments[last_completed_idx + 1] = a.word_stream[last_completed_idx + 1].text

\* on_backspace: deleting a boundary space re-opens the word before it
ReopenWordKeepingStates(a) == a

ReopenWord(a) ==
    IF EndsWithSpace(a.input) /\ Len(Split(a.input)) >= 2
    THEN [a EXCEPT !.word_stream =
             SetWordState(SetWordState(@, Len(Split(a.input)) - 1, "Pending"),
                          Len(Split(a.input)) - 2, "Active")]
    ELSE a

\* on_backspace: a deleted boundary space forgets the missed count of its word
ForgetMissed(a, popped_char) ==
    IF popped_char = SP
    THEN [a EXCEPT !.missed_chars = [k \in DOMAIN @ \ {Len(Split(a.input)) - 1} |-> @[k]]]
    ELSE a

PopCharKeepingMissed(a) == [a EXCEPT !.input = SubSeq(@, 1, Len(@) - 1)]

PopChar(a) ==
    ForgetMissed([a EXCEPT !.input = SubSeq(@, 1, Len(@) - 1)], a.input[Len(a.input)])

on_backspace_forgiving(a) ==
    IF a.state = "Finished" \/ BackspaceBlocked(a) \/ a.input = <<>> THEN a
    ELSE sync_display_text(PopChar(ReopenWord(
             [a EXCEPT !.processed_word_errors = @ \ {Len(Split(a.input)) - 2}])))

on_backspace(a) ==
    IF a.state = "Finished" \/ BackspaceBlocked(a) \/ a.input = <<>> THEN a
    ELSE sync_display_text(PopChar(ReopenWord(a)))

(***************************************************************************)
(* Session life cycle                                                      *)
(***************************************************************************)
ResetFieldsKeepingTotals(a) ==
        [a EXCEPT !.input = <<>>, !.cursor_idx = 0, !.missed_chars = <<>>, !.aligned_input = <<>>,
                  !.start_time = None, !.state = "Waiting", !.gross_char_count = 0,
                  !.total_errors_ever = 0, !.processed_word_errors = {}, !.generated_count = 0,
                  !.scrolled_word_count = 0, !.furthest_word_idx = 0,
                  !.live_correct_keystrokes = 0, !.live_incorrect_keystrokes = 0,
                  !.show_ui = TRUE, !.next_word_index = 0,
                  !.last_snapshot_second = U64MAX, !.prev_incorrect_keystrokes = 0]

ResetFields(a) ==
        [a EXCEPT !.input = <<>>, !.cursor_idx = 0, !.missed_chars = <<>>, !.aligned_input = <<>>,
                  !.start_time = None, !.state = "Waiting", !.gross_char_count = 0,
                  !.total_errors_ever = 0, !.processed_word_errors = {}, !.generated_count = 0,
                  !.scrolled_word_count = 0, !.furthest_word_idx = 0,
                  !.st_correct = 0, !.st_incorrect = 0, !.st_extra = 0, !.st_missed = 0,
                  !.acc_score_correct = 0, !.acc_score_incorrect = 0,
                  !.uncorrected_errors_scrolled = 0,
                  !.live_correct_keystrokes = 0, !.live_incorrect_keystrokes = 0,
                  !.show_ui = TRUE, !.next_word_index = 0,
                  !.wpm_history = <<>>, !.raw_wpm_history = <<>>, !.errors_history = <<>>,
                  !.last_snapshot_second = U64MAX, !.prev_incorrect_keystrokes = 0]

restart_test_keeping_state(a, raw_stream) ==
    generate_initial_words([ResetFields(a) EXCEPT !.state = a.state], raw_stream)

restart_test(a, raw_stream) == generate_initial_words(ResetFields(a), raw_stream)

\* App::new before its call of restart_test
NewApp(mode) ==
    [should_quit |-> FALSE, state |-> "Waiting", mode |-> mode, show_ui |-> TRUE,
     input |-> <<>>, cursor_idx |-> 0, start_time |-> None,
     gross_char_count |-> 0, total_errors_ever |-> 0, processed_word_errors |-> {},
     generated_count |-> 0, scrolled_word_count |-> 0, furthest_word_idx |-> 0,
     st_correct |-> 0, st_incorrect |-> 0, st_extra |-> 0, st_missed |-> 0,
     acc_score_correct |-> 0, acc_score_incorrect |-> 0, uncorrected_errors_scrolled |-> 0,
     live_correct_keystrokes |-> 0, live_incorrect_keystrokes |-> 0,
     final_wpm |-> [chars |-> 0, ms |-> 0], final_raw_wpm |-> [chars |-> 0, ms |-> 0],
     final_accuracy |-> [num |-> 0, den |-> 1], final_consistency |-> <<"zero">>, final_time |-> 0,
     word_stream |-> <<>>, word_stream_string |-> <<>>,
     terminal_width |-> InitialWidth, visual_lines |-> <<>>,
     display_string |-> <<>>, display_mask |-> <<>>, extra_char_count |-> 0,
     missed_chars |-> <<>>, aligned_input |-> <<>>, next_word_index |-> 0,
     wpm_history |-> <<>>, raw_wpm_history |-> <<>>, errors_history |-> <<>>,
     last_snapshot_second |-> U64MAX, prev_incorrect_keystrokes |-> 0]

new(mode, raw_stream) == restart_test(NewApp(mode), raw_stream)

resize(a, width) == recalculate_lines([a EXCEPT !.terminal_width = width])

quit(a) == [a EXCEPT !.should_quit = TRUE]

on_mouse(a) == IF a.state # "Finished" THEN [a EXCEPT !.show_ui = TRUE] ELSE a

\* the condition under which check_time ends the test
TimeIsUp(a, t) ==
    /\ a.state = "Running"
    /\ a.start_time # None
    /\ a.mode.kind = "Time"
    /\ t - a.start_time[1] >= a.mode.n * 1000

check_time_clearing(a, t) ==
    IF TimeIsUp(a, t)
    THEN [end_test(a, t) EXCEPT !.st_correct = 0, !.st_incorrect = 0, !.st_extra = 0,
                                !.st_missed = 0, !.uncorrected_errors_scrolled = 0]
    ELSE a

check_time(a, t) == IF TimeIsUp(a, t) THEN end_test(a, t) ELSE a

(***************************************************************************)
(* The state machine: run_app's event loop                                 *)
(***************************************************************************)
Idle(op) == [op |-> op, key |-> "", outcome |-> "done", evicted |-> FALSE, before |-> None]

\* App::new, then the resize run_app performs before its first event
InitWith(widths) ==
    /\ \E mode \in Modes : \E raw_stream \in InitialBatches(mode) : \E w \in widths :
           app = resize(new(mode, raw_stream), w)
    /\ now = 0
    /\ last = Idle("new")
    /\ charges = [charged |-> <<>>, closed |-> <<>>]

\* run_app calls check_time at the top of every iteration and handles at most
\* one event below it: an event is handled while the time limit has not run
\* out, or has run out since that call
Polled == ~app.should_quit /\ (~TimeIsUp(app, now) \/ last.op = "tick")

Bump(f, ks) == [k \in DOMAIN f \cup ks |-> (IF k \in DOMAIN f THEN f[k] ELSE 0) + (IF k \in ks THEN 1 ELSE 0)]

Init == InitWith(StartWidths)

\* the state after on_key returned r for the key c
KeyDone(r, c) ==
    /\ app' = r.app
    /\ last' = [op |-> "on_key", key |-> c, outcome |-> r.outcome,
                evicted |-> r.evicted, before |-> r.before]
    /\ charges' = [charged |-> Bump(charges.charged, r.charged),
                   closed |-> Bump(charges.closed, r.closed)]

OnKeyWithin(max_keys) ==
    /\ Polled
    /\ app.gross_char_count < max_keys
    /\ \E c \in Keys : \E new_word \in Dict : KeyDone(on_key(app, c, now, new_word), c)
    /\ UNCHANGED now

OnKey == OnKeyWithin(MaxKeys)

OnBackspace ==
    /\ Polled
    /\ app' = on_backspace(app)
    /\ last' = Idle("on_backspace")
    /\ UNCHANGED <<now, charges>>

CheckTime ==
    /\ ~app.should_quit
    /\ TimeIsUp(app, now)
    /\ app' = check_time(app, now)
    /\ last' = Idle("check_time")
    /\ UNCHANGED <<now, charges>>

RestartTest ==
    /\ Polled
    /\ \E raw_stream \in InitialBatches(app.mode) : app' = restart_test(app, raw_stream)
    /\ last' = Idle("restart_test")
    /\ charges' = [charged |-> <<>>, closed |-> <<>>]
    /\ UNCHANGED now

Resize ==
    /\ Polled
    /\ \E w \in Widths : app' = resize(app, w)
    /\ last' = Idle("resize")
    /\ UNCHANGED <<now, charges>>

OnMouse ==
    /\ Polled
    /\ app.state # "Finished"
    /\ app' = on_mouse(app)
    /\ last' = Idle("on_mouse")
    /\ UNCHANGED <<now, charges>>

Quit ==
    /\ Polled
    /\ app' = quit(app)
    /\ last' = Idle("quit")
    /\ UNCHANGED <<now, charges>>

\* The clock is read only as now - start_time, so its advance is modelled
\* from the first keystroke on; once the time limit has run out the next
\* check_time call, which is at most one event away, ends the test.
Tick ==
    /\ ~app.should_quit
    /\ app.state = "Running"
    /\ ~TimeIsUp(app, now)
    /\ \E d \in TickSteps : now + d <= MaxTicks * d /\ now' = now + d
    /\ last' = Idle("tick")
    /\ UNCHANGED <<app, charges>>

\* Spec: the keystroke engine, one session at a narrow terminal
Next == OnKey \/ OnBackspace

Spec == Init /\ [][Next]_vars

\* SpecTimed: the keystroke engine with the clock and the time limit
TimedKey == OnKeyWithin(TimedKeys)

NextTimed == TimedKey \/ OnBackspace \/ Tick \/ CheckTime

SpecTimed == Init /\ [][NextTimed]_vars

\* SpecSession: every event of run_app's loop, over short sessions
SessionKey == OnKeyWithin(SessionKeys)

NextSession ==
    SessionKey \/ OnBackspace \/ Tick \/ CheckTime \/ RestartTest \/ Resize \/ OnMouse \/ Quit

SpecSession == Init /\ [][NextSession]_vars

\* SpecOverrun: sessions at the constructor's width whose first word already
\* holds all but two of the characters the overrun limit admits
RECURSIVE TypeRepeatedly(_, _, _)
TypeRepeatedly(a, c, n) ==
    IF n = 0 THEN a ELSE TypeRepeatedly(on_key(a, c, 0, <<"a">>).app, c, n - 1)

PreTyped == MaxOverrun - 1

InitOverrun ==
    /\ \E mode \in Modes : \E raw_stream \in InitialBatches(mode) :
           app = TypeRepeatedly(resize(new(mode, raw_stream), InitialWidth), "a", PreTyped)
    /\ now = 0
    /\ last = Idle("new")
    /\ charges = [charged |-> <<>>, closed |-> <<>>]

OverrunKey ==
    /\ app.gross_char_count >= PreTyped
    /\ OnKeyWithin(PreTyped + OverrunKeys)

\* backspaces stay within OverrunKeys characters of the pre-typed prefix
OverrunBackspace ==
    /\ Len(app.input) + OverrunKeys > PreTyped
    /\ OnBackspace

NextOverrun == OverrunKey \/ OverrunBackspace

SpecOverrun == InitOverrun /\ [][NextOverrun]_vars

\* SpecRestart: timed sessions typed forward that may be restarted at any event
NextRestart == TimedKey \/ Tick \/ CheckTime \/ RestartTest

SpecRestart == Init /\ [][NextRestart]_vars

\* SpecExact: Words sessions, some of them longer than the first batch, in
\* which the user types the target text exactly
InitExact ==
    /\ \E n \in {1, 2, BatchCap + 1, BatchCap + 2} :
         \E raw_stream \in InitialBatches(Words(n)) : \E w \in Widths :
           app = resize(new(Words(n), raw_stream), w)
    /\ now = 0
    /\ last = Idle("new")
    /\ charges = [charged |-> <<>>, closed |-> <<>>]

\* the key that continues the target text: the next character of the
\* current word, or the space after it
NextExactKey(a) ==
    IF Len(CurrentWord(a)) < Len(a.word_stream[CurrentWordIdx(a) + 1].text)
    THEN a.word_stream[CurrentWordIdx(a) + 1].text[Len(CurrentWord(a)) + 1]
    ELSE SP

ExactKey ==
    /\ Polled
    /\ app.state # "Finished"
    /\ CurrentWordIdx(app) < Len(app.word_stream)
    /\ \E new_word \in Dict :
          KeyDone(on_key(app, NextExactKey(app), now, new_word), NextExactKey(app))
    /\ UNCHANGED now

SpecExact == InitExact /\ [][ExactKey]_vars

\* the guard of ExactKey: the session runs and the current word exists
ExactKeyEnabled ==
    ~app.should_quit /\ app.state # "Finished" /\ CurrentWordIdx(app) < Len(app.word_stream)

\* the user keeps typing: weak fairness of ExactKey, written with its guard
FairExact == SpecExact /\ ([]<>(~ExactKeyEnabled) \/ []<><<ExactKey>>_vars)

\* SpecWrap: wrap_into_lines applied to display texts, which are words of
\* one to three characters joined by single spaces, at every small width
InitWrap ==
    /\ app = NewApp(Time(1))
    /\ now = 0
    /\ \E n \in 0..MaxWrapWords : \E ws \in [1..n -> {<<"a">>, <<"a", "b">>, <<"a", "b", "c">>}] :
         \E width \in 0..MaxWrapWidth :
           last = [Idle("new") EXCEPT !.key = [text |-> Join(ws), width |-> width]]
    /\ charges = [charged |-> <<>>, closed |-> <<>>]

ApplyWrap ==
    /\ last.op = "new"
    /\ last' = [Idle("wrap_into_lines") EXCEPT
                   !.key = last.key,
                   !.outcome = wrap_into_lines(last.key.text, last.key.width)]
    /\ UNCHANGED <<app, now, charges>>

SpecWrap == InitWrap /\ [][ApplyWrap]_vars

\* SpecWide: the keystroke engine on a terminal whose lines hold two words
InitWide == InitWith({8})

SpecWide == InitWide /\ [][Next]_vars

\* SpecChars: are_characters_visually_equal applied to every triple of sample
\* characters: the members of the three classes and some plain characters
CharSamples ==
    {"\"", "U+201C", "U+201D", "U+201E", "'", "U+2019", "U+2018", "U+02BC", "U+1FBD",
     "-", "U+2013", "U+2014", "U+2010", ",", "U+201A", "a", "b", ".", SP, NUL}

InitChars ==
    /\ app = NewApp(Time(1))
    /\ now = 0
    /\ \E c1 \in CharSamples : \E c2 \in CharSamples : \E c3 \in CharSamples :
           last = [Idle("new") EXCEPT !.key = <<c1, c2, c3>>]
    /\ charges = [charged |-> <<>>, closed |-> <<>>]

CompareChars ==
    /\ last.op = "new"
    /\ last' = [Idle("are_characters_visually_equal") EXCEPT
                   !.key = last.key,
                   !.outcome = <<are_characters_visually_equal(last.key[1], last.key[2]),
                                 are_characters_visually_equal(last.key[2], last.key[3]),
                                 are_characters_visually_equal(last.key[1], last.key[3]),
                                 are_characters_visually_equal(last.key[2], last.key[1])>>]
    /\ UNCHANGED <<app, now, charges>>

SpecChars == InitChars /\ [][CompareChars]_vars

\* SpecClock: sessions under a clock that advances in steps around the gap
\* end_test asks for before a final snapshot
ClockKey == OnKeyWithin(ClockKeys)

ClockTick ==
    /\ ~app.should_quit
    /\ app.state = "Running"
    /\ ~TimeIsUp(app, now)
    /\ \E d \in ClockSteps : now + d <= ClockTicks * SnapshotGapMs /\ now' = now + d
    /\ last' = Idle("tick")
    /\ UNCHANGED <<app, charges>>

NextClock == ClockKey \/ ClockTick \/ CheckTime

SpecClock == Init /\ [][NextClock]_vars

\* SpecPunct: the keystroke engine over words that hold typographic
\* punctuation, typed on a keyboard with the plain marks
InitPunct ==
    /\ \E mode \in Modes :
         \E raw_stream \in [1..(IF mode.kind = "Time" THEN BatchCap ELSE Min(mode.n, BatchCap)) -> PunctDict] :
           \* the generator never opens or ends the first batch with the dash,
           \* and never puts two in a row
           /\ raw_stream[1] # <<"U+2014">>
           /\ raw_stream[Len(raw_stream)] # <<"U+2014">>
           /\ \A i \in 1..(Len(raw_stream) - 1) : raw_stream[i] # <<"U+2014">> \/ raw_stream[i + 1] # <<"U+2014">>
           /\ \E w \in StartWidths : app = resize(new(mode, raw_stream), w)
    /\ now = 0
    /\ last = Idle("new")
    /\ charges = [charged |-> <<>>, closed |-> <<>>]

PunctKey ==
    /\ Polled
    /\ app.gross_char_count < PunctKeys
    /\ \E c \in PunctKeyboard : \E new_word \in PunctDict :
          KeyDone(on_key(app, c, now, new_word), c)
    /\ UNCHANGED now

NextPunct == PunctKey \/ OnBackspace

SpecPunct == InitPunct /\ [][NextPunct]_vars

(***************************************************************************)
(* Properties                                                              *)
(***************************************************************************)
NumSpaces(s) == Count(s, SP)

\* the typed words of RawInput and the target words, by window index
TypedWord(k) == Split(app.input)[k + 1]

TargetWord(k) == app.word_stream[k + 1].text

\* C1: aligned_input is index-compatible with display_string: at every index
\* of aligned_input, a space sits exactly on a non-extra space of the display,
\* a missing sentinel sits only on a non-extra non-space position, and an
\* extra position holds the same character in both.
C1_IndexCompatible ==
    /\ Len(app.display_mask) = Len(app.display_string)
    /\ \A i \in 1..Len(app.aligned_input) :
          /\ i <= Len(app.display_string)
          /\ (app.aligned_input[i] = SP) <=> (app.display_string[i] = SP /\ ~app.display_mask[i])
          /\ app.aligned_input[i] = NUL => (~app.display_mask[i] /\ app.display_string[i] # SP)
          /\ app.display_mask[i] => app.aligned_input[i] = app.display_string[i]

\* a word closed short and a word with an extra character are both aligned
C1_Witness ==
    /\ \E i \in 1..Len(app.aligned_input) : app.aligned_input[i] = NUL
    /\ \E j \in 1..Len(app.aligned_input) : app.display_mask[j]

RECURSIVE CompletedSpan(_)
CompletedSpan(n) ==
    IF n = 0 THEN 0
    ELSE CompletedSpan(n - 1) + Max(Len(TypedWord(n - 1)), Len(TargetWord(n - 1))) + 1

C3_EvictionKeepsIndices ==
    last.evicted =>
        LET n == CharsToRemoveVisual(last.before)
        IN /\ app.display_string = Drop(last.before.display_string, n)
           /\ app.display_mask = Drop(last.before.display_mask, n)
           /\ app.aligned_input = Drop(last.before.aligned_input, n)

\* an eviction that leaves a word closed short in the window
C3_Witness ==
    /\ last.evicted
    /\ app.missed_chars # <<>>
    /\ \E i \in 1..Len(app.aligned_input) : app.aligned_input[i] = NUL

Counters(a) ==
    <<a.st_correct, a.st_incorrect, a.st_extra, a.st_missed, a.uncorrected_errors_scrolled>>

\* C4: within a session no step decreases st_correct, st_incorrect, st_extra,
\* st_missed or uncorrected_errors_scrolled.
C4_CountersMonotone ==
    [][\A i \in 1..5 : Counters(app')[i] >= Counters(app)[i]]_vars

\* a session ended by the time limit after an eviction has folded in a line
\* with a fault
C4_Witness ==
    /\ app.state = "Finished"
    /\ last.op = "check_time"
    /\ app.st_incorrect + app.st_missed > 0
    /\ app.uncorrected_errors_scrolled > 0

\* C5: the four totals of resolved_char_stats are the same before and after
\* delete_first_visual_line.
C5_StatsSurviveEviction ==
    last.evicted => resolved_char_stats(app) = resolved_char_stats(last.before)

\* an eviction that folds in a faulty word and leaves a short word on screen
C5_Witness ==
    /\ last.evicted
    /\ app.st_incorrect + app.st_extra + app.st_missed > 0
    /\ app.missed_chars # <<>>

\* C6: the structural word error of a word is charged at most once, however
\* often its boundary space is pressed (words are numbered from the start of
\* the session, so an eviction does not rename them).
C6_ChargedOnce ==
    \A k \in DOMAIN charges.charged : charges.charged[k] <= 1

\* a charged word whose boundary space was pressed again after an eviction
\* had shifted its index
C6_Witness ==
    \E k \in DOMAIN charges.closed :
        /\ charges.closed[k] >= 2
        /\ charges.charged[k] = 1
        /\ app.scrolled_word_count > 0
        /\ k >= app.scrolled_word_count

Forward(s1, s2) ==
    \/ s1 = s2
    \/ s1 = "Waiting" /\ s2 = "Running"
    \/ s1 = "Running" /\ s2 = "Finished"

\* C7 as stated: no operation changes the session state other than by
\* Waiting -> Running or Running -> Finished
C7_Original == [][Forward(app.state, app'.state)]_vars

\* C7 amended: restart_test returns the session to Waiting from any state; an
\* on_key call may take Waiting -> Running -> Finished at once, when the first
\* keystroke completes the test; every other step leaves the state or moves it
\* Waiting -> Running or Running -> Finished.
C7_Amended ==
    [][IF last'.op = "restart_test" THEN app'.state = "Waiting"
       ELSE \/ Forward(app.state, app'.state)
            \/ last'.op = "on_key" /\ app.state = "Waiting" /\ app'.state = "Finished"]_vars

\* a restart of a finished session
C7_Witness ==
    /\ last.op = "restart_test"
    /\ app.state = "Waiting"
    /\ app.final_time > 0

\* C8: in a Finished session on_key and on_backspace change nothing.
C8_FinishedIsFrozen ==
    [][(app.state = "Finished" /\ last'.op \in {"on_key", "on_backspace"}) => app' = app]_vars

\* a keystroke delivered to a finished session
C8_Witness ==
    /\ last.op = "on_key"
    /\ last.outcome = "finished"
    /\ app.state = "Finished"

\* C9 as stated: a rejected keystroke changes nothing
C9_RejectedChangesNothing ==
    [][(last'.op = "on_key" /\ last'.outcome = "rejected") => app' = app]_vars

\* C10: every typed word that has a target word is at most MaxOverrun
\* characters longer than it, and a non-space keystroke on a word at the limit
\* is rejected.
C10_OverrunLimit ==
    /\ [](\A k \in 0..(Len(Split(app.input)) - 1) :
             k < Len(app.word_stream) => Len(TypedWord(k)) <= Len(TargetWord(k)) + MaxOverrun)
    /\ [][(/\ last'.op = "on_key"
           /\ last'.key # SP
           /\ app.state # "Finished"
           /\ NumSpaces(app.input) < Len(app.word_stream)
           /\ Len(TypedWord(NumSpaces(app.input)))
                 = Len(TargetWord(NumSpaces(app.input))) + MaxOverrun)
             => (last'.outcome = "rejected" /\ app'.input = app.input)]_vars

\* a word closed by a space at the limit
C10_Witness ==
    /\ NumSpaces(app.input) = 1
    /\ Len(TypedWord(0)) = Len(TargetWord(0)) + MaxOverrun
    /\ app.extra_char_count = MaxOverrun

\* the completed typed word before the boundary RawInput ends with, and its target
LastClosedTyped == Split(app.input)[Len(Split(app.input)) - 1]

LastClosedTarget == app.word_stream[Len(Split(app.input)) - 1].text

\* check_test_completion's test with the comparison made by visual equivalence
CompletionDue ==
    LET target_words == Split(app.word_stream_string)
        input_words == Split(app.input)
    IN /\ SatSub(Len(app.aligned_input), app.extra_char_count) >= Len(app.word_stream_string)
       /\ Len(input_words) >= Len(target_words)
       /\ words_visually_equal(input_words[Len(target_words)], target_words[Len(target_words)])

\* C11 as stated: the decisions depend on the typed characters only up to
\* visual equivalence: backspace at a completed-word boundary is blocked
\* exactly when the completed word is visually equal to its target, and a
\* Words session whose last word is visually equal to its target is completed
\* by the keystroke that types it.
C11_VisualDecisions ==
    /\ (/\ app.state # "Finished"
        /\ EndsWithSpace(app.input)
        /\ Len(Split(app.input)) >= 2
        /\ Len(Split(app.input)) - 2 < Len(app.word_stream))
          => (BackspaceBlocked(app) <=> words_visually_equal(LastClosedTyped, LastClosedTarget))
    /\ (/\ app.mode.kind = "Words"
        /\ last.op = "on_key"
        /\ last.outcome = "accepted"
        /\ CompletionDue)
          => app.state = "Finished"

\* the display positions of window word k, its boundary space included
WordStart(k) == CompletedSpan(k) + 1

WordStop(k) == CompletedSpan(k + 1)

WordSlice(s, k) == SubSeq(s, WordStart(k), Min(WordStop(k), Len(s)))

\* Word Scoring over the range of window word k
WordStats(k) ==
    calculate_custom_stats_for_slice(WordSlice(app.aligned_input, k),
                                     WordSlice(app.display_string, k),
                                     WordSlice(app.display_mask, k))

\* the range of window word k in aligned_input ends with n sentinels and the
\* boundary space, and holds no other sentinel
SentinelsBeforeSpace(k, n) ==
    /\ WordStop(k) <= Len(app.aligned_input)
    /\ app.aligned_input[WordStop(k)] = SP
    /\ \A i \in WordStart(k)..(WordStop(k) - 1) :
          (app.aligned_input[i] = NUL) <=> (i >= WordStop(k) - n)

\* the last step was an accepted space that closed window word JustClosedIdx
JustClosed ==
    /\ last.op = "on_key"
    /\ last.key = SP
    /\ last.outcome = "accepted"
    /\ NumSpaces(app.input) >= 1
    /\ NumSpaces(app.input) - 1 < Len(app.word_stream)

JustClosedIdx == NumSpaces(app.input) - 1

Shortfall(k) == Len(TargetWord(k)) - Len(TypedWord(k))

C13_FullWordCorrect ==
    /\ []((JustClosed /\ words_visually_equal(TypedWord(JustClosedIdx), TargetWord(JustClosedIdx)))
            => WordStats(JustClosedIdx) =
                 [ZeroStats EXCEPT !.acc_cor = Len(TargetWord(JustClosedIdx)) + 1,
                                   !.raw_cor = Len(TargetWord(JustClosedIdx)) + 1])
    /\ [][(JustClosed /\ words_visually_equal(TypedWord(JustClosedIdx), TargetWord(JustClosedIdx)))'
            => app'.total_errors_ever = app.total_errors_ever]_vars

\* a two-letter word closed correctly after an eviction
C13_Witness ==
    /\ JustClosed
    /\ TypedWord(JustClosedIdx) = TargetWord(JustClosedIdx)
    /\ Len(TargetWord(JustClosedIdx)) = 2
    /\ app.scrolled_word_count > 0

\* the last step closed a word as long as its target and not equal to it
ClosedMismatch ==
    /\ JustClosed
    /\ Shortfall(JustClosedIdx) = 0
    /\ ~words_visually_equal(TypedWord(JustClosedIdx), TargetWord(JustClosedIdx))

\* the positions at which the closed word differs from its target
Unequal ==
    Cardinality({i \in 1..Len(TargetWord(JustClosedIdx)) :
        ~are_characters_visually_equal(TypedWord(JustClosedIdx)[i], TargetWord(JustClosedIdx)[i])})

\* the word index the closed word had when the session began
ClosedAbsIdx == JustClosedIdx + app.scrolled_word_count

TypographicKey(c) ==
    /\ c # SP
    /\ NumSpaces(app.input) < Len(app.word_stream)
    /\ Len(CurrentWord(app)) < Len(TargetWord(NumSpaces(app.input)))
    /\ c # TargetWord(NumSpaces(app.input))[Len(CurrentWord(app)) + 1]
    /\ are_characters_visually_equal(c, TargetWord(NumSpaces(app.input))[Len(CurrentWord(app)) + 1])

\* the last step closed a word that is visually equal to its target and not
\* equal to it
ClosedTypographic ==
    /\ JustClosed
    /\ TypedWord(JustClosedIdx) # TargetWord(JustClosedIdx)
    /\ words_visually_equal(TypedWord(JustClosedIdx), TargetWord(JustClosedIdx))

\* C15: a word typed with characters of the same typographic class as the
\* target's is treated as correct: each such keystroke and the closing space
\* add one to live_correct_keystrokes and leave total_errors_ever and
\* live_incorrect_keystrokes alone, the closing space charges no structural
\* error, and the word's range is scored with full raw-correct credit and
\* nothing incorrect.
C15_TypographicCorrect ==
    /\ [](ClosedTypographic
            => WordStats(JustClosedIdx) =
                 [ZeroStats EXCEPT !.acc_cor = Len(TargetWord(JustClosedIdx)) + 1,
                                   !.raw_cor = Len(TargetWord(JustClosedIdx)) + 1])
    /\ [][((last'.op = "on_key" /\ last'.outcome = "accepted" /\ TypographicKey(last'.key))
             \/ ClosedTypographic')
            => /\ app'.live_correct_keystrokes = app.live_correct_keystrokes + 1
               /\ app'.live_incorrect_keystrokes = app.live_incorrect_keystrokes
               /\ app'.total_errors_ever = app.total_errors_ever
               /\ charges'.charged = charges.charged]_vars

\* the plain dash typed for the em dash and closed, in a session without error
C15_Witness ==
    /\ JustClosed
    /\ TypedWord(JustClosedIdx) = <<"-">>
    /\ TargetWord(JustClosedIdx) = <<"U+2014">>
    /\ app.total_errors_ever = 0
    /\ app.live_correct_keystrokes = 4

\* the last step closed a word typed as its target in full and then longer
ClosedOverlong ==
    /\ JustClosed
    /\ Shortfall(JustClosedIdx) < 0
    /\ words_visually_equal(Take(TypedWord(JustClosedIdx), Len(TargetWord(JustClosedIdx))),
                            TargetWord(JustClosedIdx))

\* the extras of the closed word
NumExtras == Len(TypedWord(JustClosedIdx)) - Len(TargetWord(JustClosedIdx))

\* Word Scoring over the closed word's letters and extras, without its
\* boundary space
LetterStats ==
    calculate_custom_stats_for_slice(
        SubSeq(app.aligned_input, WordStart(JustClosedIdx), WordStop(JustClosedIdx) - 1),
        SubSeq(app.display_string, WordStart(JustClosedIdx), WordStop(JustClosedIdx) - 1),
        SubSeq(app.display_mask, WordStart(JustClosedIdx), WordStop(JustClosedIdx) - 1))

RECURSIVE MissedBelow(_)
MissedBelow(n) ==
    IF n = 0 THEN 0 ELSE MissedBelow(n - 1) + Missed(app.missed_chars, n - 1)

\* the session was ended by the time limit
TimedOut ==
    /\ app.state = "Finished"
    /\ app.mode.kind = "Time"
    /\ last.op = "check_time"

\* C17: when the time limit ends a session, end_test cuts display_string and
\* display_mask to the length of aligned_input and leaves aligned_input alone,
\* so the final character statistics count as missed only the sentinels of
\* aligned_input (beside the retired ones in st_missed), and these are the
\* characters recorded in missed_chars for words closed early by a space.
C17_TimedCut ==
    /\ [](TimedOut
            => /\ Len(app.display_string) = Len(app.aligned_input)
               /\ Len(app.display_mask) = Len(app.aligned_input)
               /\ resolved_char_stats(app).missed = app.st_missed + Count(app.aligned_input, NUL)
               /\ Count(app.aligned_input, NUL) = MissedBelow(Len(app.word_stream)))
    /\ [][(app.state = "Running" /\ app'.state = "Finished" /\ app.mode.kind = "Time")
            => /\ app'.display_string = Take(app.display_string, Len(app.aligned_input))
               /\ app'.display_mask = Take(app.display_mask, Len(app.aligned_input))
               /\ app'.aligned_input = app.aligned_input
               /\ app'.st_missed = app.st_missed]_vars

\* the time limit ends a session in the middle of a word, after a word closed
\* one character short
C17_Witness ==
    /\ TimedOut
    /\ app.input # <<>>
    /\ ~EndsWithSpace(app.input)
    /\ Len(CurrentWord(app)) < Len(TargetWord(NumSpaces(app.input)))
    /\ Count(app.aligned_input, NUL) = 1
    /\ resolved_char_stats(app).missed = 1
    /\ Len(app.display_string) < Len(app.word_stream_string)

\* the time of the last integer-second snapshot, in milliseconds
LastFullMs ==
    IF app.last_snapshot_second = U64MAX THEN 0 ELSE app.last_snapshot_second * 1000

\* the three snapshot series
Series(a) == <<a.wpm_history, a.raw_wpm_history, a.errors_history>>

\* C18: the step that ends a session appends a final snapshot, stamped with
\* the total elapsed time, to each of the three series if and only if the
\* elapsed time is at least 0.495 s beyond the last integer-second snapshot
\* (beyond 0 when there is none); an integer-second snapshot the ending
\* keystroke itself has recorded comes before it.
C18_FinalSnapshot ==
    [][(app.state # "Finished" /\ app'.state = "Finished")
        => LET duration_ms == now' - app'.start_time[1]
               due == duration_ms - LastFullMs' >= 495
               full == IF app'.last_snapshot_second # app.last_snapshot_second THEN 1 ELSE 0
           IN /\ app'.final_time = duration_ms
              /\ \A i \in 1..3 :
                    /\ Len(Series(app')[i]) = Len(Series(app)[i]) + full + (IF due THEN 1 ELSE 0)
                    /\ Take(Series(app')[i], Len(Series(app)[i])) = Series(app)[i]
                    /\ due => Series(app')[i][Len(Series(app')[i])].t = duration_ms
                    /\ full = 1 => Series(app')[i][Len(Series(app)[i]) + 1].t = LastFullMs']_vars

\* a session ended exactly 0.495 s after its snapshot of second 1, with the
\* final snapshot recorded
C18_Witness ==
    /\ app.state = "Finished"
    /\ app.last_snapshot_second = 1
    /\ app.final_time = 1495
    /\ Len(app.wpm_history) = 2
    /\ app.wpm_history[2].t = 1495

\* a session ended 0.3 s after its snapshot of second 1, without a final
\* snapshot
C18_WitnessNone ==
    /\ app.state = "Finished"
    /\ app.last_snapshot_second = 1
    /\ app.final_time = 1300
    /\ Len(app.wpm_history) = 1

\* the fields the claim lists as reset hold their initial values
SessionFieldsReset(a) ==
    /\ a.input = <<>>
    /\ a.aligned_input = <<>>
    /\ a.missed_chars = <<>>
    /\ a.processed_word_errors = {}
    /\ a.live_correct_keystrokes = 0
    /\ a.live_incorrect_keystrokes = 0
    /\ a.state = "Waiting"

\* the cumulative counters and the accuracy scores
Totals(a) ==
    <<a.st_correct, a.st_incorrect, a.st_extra, a.st_missed,
      a.acc_score_correct, a.acc_score_incorrect, a.uncorrected_errors_scrolled>>

C20_StreamStringJoined ==
    app.word_stream_string = Join([i \in 1..Len(app.word_stream) |-> app.word_stream[i].text])

\* an eviction has retired a line that held extra characters, shortening the
\* string and draining the list, in a session that has added words
C20_Witness ==
    /\ last.op = "on_key"
    /\ last.evicted
    /\ app.scrolled_word_count > 0
    /\ app.next_word_index > BatchCap
    /\ Count(Take(last.before.display_mask, CharsToRemoveVisual(last.before)), TRUE) > 0
    /\ Len(app.word_stream) >= 2

\* every word before the current word index is Typed, the word at it is
\* Active and every word after it is Pending
WordStatesOrdered ==
    \A i \in 1..Len(app.word_stream) :
        app.word_stream[i].state =
            IF i - 1 < NumSpaces(app.input) THEN "Typed"
            ELSE IF i - 1 = NumSpaces(app.input) THEN "Active"
            ELSE "Pending"

\* C21 as stated: in a session that is not Finished exactly one word of
\* word_stream is Active, it is the word at the current word index, the words
\* before it are Typed and the words after it are Pending.
C21_OneActive ==
    app.state # "Finished"
        => /\ Cardinality({i \in 1..Len(app.word_stream) : app.word_stream[i].state = "Active"}) = 1
           /\ WordStatesOrdered

\* the same while the current word index has a word
C21_WhileInRange ==
    (app.state # "Finished" /\ NumSpaces(app.input) < Len(app.word_stream))
        => /\ Cardinality({i \in 1..Len(app.word_stream) : app.word_stream[i].state = "Active"}) = 1
           /\ WordStatesOrdered

\* C22: acc_score_correct and acc_score_incorrect are never negative, and
\* neither are the signed scores of the visible window that the next eviction
\* would add to them.
C22_ScoresNonNegative ==
    /\ app.acc_score_correct >= 0
    /\ app.acc_score_incorrect >= 0
    /\ calculate_custom_stats_for_slice(app.aligned_input, app.display_string,
                                        app.display_mask).acc_cor >= 0
    /\ calculate_custom_stats_for_slice(app.aligned_input, app.display_string,
                                        app.display_mask).acc_inc >= 0

\* an eviction has retired a line whose every position was faulted, after a
\* backspace
C22_Witness ==
    /\ last.evicted
    /\ app.acc_score_correct = 0
    /\ app.acc_score_incorrect >= 2
    /\ \E k \in DOMAIN charges.closed : charges.closed[k] >= 2

\* C23 as stated: in a session that is not Finished the current word index,
\* the number of spaces in RawInput, is smaller than the length of
\* word_stream.
C23_IndexInRange ==
    app.state # "Finished" => NumSpaces(app.input) < Len(app.word_stream)

\* the same in Time mode, where every first closing of a word draws a new one
C23_InRangeTimed ==
    (app.state # "Finished" /\ app.mode.kind = "Time")
        => NumSpaces(app.input) < Len(app.word_stream)

\* the Pending words beyond window index k
PendingBeyond(k) ==
    Cardinality({i \in (k + 2)..Len(app.word_stream) : app.word_stream[i].state = "Pending"})

\* a space is about to finish, for the first time, the word at the current
\* index, fewer than 100 Pending words lie beyond the next word, and the
\* generator has a word to give
Draws ==
    /\ NumSpaces(app.input) >= app.furthest_word_idx
    /\ PendingBeyond(NumSpaces(app.input) + 1) < 100
    /\ (app.mode.kind = "Words" => app.generated_count < app.mode.n)

C25_ErrorsOnlyOnIncorrect ==
    [][/\ app'.total_errors_ever > app.total_errors_ever
            => /\ last'.op = "on_key"
               /\ last'.outcome = "accepted"
               /\ app'.live_incorrect_keystrokes = app.live_incorrect_keystrokes + 1
               /\ app'.live_correct_keystrokes = app.live_correct_keystrokes
       /\ app'.live_correct_keystrokes = app.live_correct_keystrokes + 1
            => app'.total_errors_ever = app.total_errors_ever]_vars

\* a space has closed a matching word, counted correct, in a session that had
\* been charged errors before, after an eviction
C25_Witness ==
    /\ JustClosed
    /\ TypedWord(JustClosedIdx) = TargetWord(JustClosedIdx)
    /\ app.total_errors_ever = app.live_incorrect_keystrokes + 1
    /\ app.live_correct_keystrokes >= 3
    /\ app.scrolled_word_count > 0

\* the typographic classes: quotation marks, dashes, comma-like marks
QuoteClass == {"\"", "U+201C", "U+201D", "U+201E", "'", "U+2019", "U+2018", "U+02BC", "U+1FBD"}

DashClass == {"-", "U+2013", "U+2014", "U+2010"}

CommaClass == {",", "U+201A"}

SameClass(c1, c2) == \E cls \in {QuoteClass, DashClass, CommaClass} : c1 \in cls /\ c2 \in cls

\* C26: are_characters_visually_equal(a, b) holds exactly when a = b or a and
\* b are in the same class; it is reflexive, symmetric and transitive, and the
\* classes are disjoint, so no character of one class equals one of another.
C26_VisualEquivalence ==
    last.op = "are_characters_visually_equal"
        => /\ last.outcome[1] <=> (last.key[1] = last.key[2] \/ SameClass(last.key[1], last.key[2]))
           /\ last.key[1] = last.key[2] => last.outcome[1]
           /\ last.outcome[1] <=> last.outcome[4]
           /\ (last.outcome[1] /\ last.outcome[2]) => last.outcome[3]
           /\ (\E cls \in {QuoteClass, DashClass, CommaClass} :
                   last.key[1] \in cls /\ last.key[2] \notin cls) => ~last.outcome[1]

\* the plain and the curly apostrophe, found equal, and the em dash, found
\* different from both
C26_Witness ==
    /\ last.op = "are_characters_visually_equal"
    /\ last.key = <<"'", "U+2019", "U+2014">>
    /\ last.outcome = <<TRUE, FALSE, FALSE, TRUE>>

\* the timestamps of a snapshot series, in milliseconds
Stamps(h) == [i \in 1..Len(h) |-> h[i].t]

\* the integer seconds that have elapsed in the session
ElapsedSeconds == IF app.start_time = None THEN 0 ELSE (now - app.start_time[1]) \div 1000

\* C27 as stated: after a keystroke of a Running session the three series
\* hold one entry for each elapsed integer second, stamped with it.
C27_Original ==
    (app.state = "Running" /\ last.op = "on_key")
        => \A i \in 1..3 : Stamps(Series(app)[i]) = [sec \in 1..ElapsedSeconds |-> sec * 1000]

\* C27 amended: the series hold at most one entry for each elapsed integer
\* second, and hold the one of second sec only if a keystroke was handled
\* during it: a keystroke of a Running session leaves the current second, if
\* it is 1 or later, as the last entry, and only a keystroke or the end of
\* the session appends. A finished session holds at most one entry, the
\* last, that is not an integer-second entry. The three series always have
\* the same length and the same strictly increasing timestamps.
C27_Amended ==
    /\ [](LET st == Stamps(app.wpm_history)
          IN /\ \A i \in 1..3 : Stamps(Series(app)[i]) = st
             /\ \A i \in 1..Len(st) : st[i] > 0 /\ (i > 1 => st[i - 1] < st[i])
             /\ \A i \in 1..(Len(st) - 1) : st[i] % 1000 = 0 /\ st[i] >= 1000
             /\ app.state # "Finished"
                  => \A i \in 1..Len(st) : st[i] % 1000 = 0 /\ st[i] \div 1000 \in 1..ElapsedSeconds
             /\ (app.state = "Running" /\ last.op = "on_key" /\ ElapsedSeconds >= 1)
                  => st # <<>> /\ st[Len(st)] = ElapsedSeconds * 1000)
    /\ [][/\ Take(app'.wpm_history, Len(app.wpm_history)) = app.wpm_history
          /\ app'.wpm_history # app.wpm_history
               => \/ last'.op = "on_key"
                  \/ app.state = "Running" /\ app'.state = "Finished"]_vars

\* a Running session with a keystroke in second 1 and one in second 2
C27_Witness ==
    /\ app.state = "Running"
    /\ last.op = "on_key"
    /\ Stamps(app.errors_history) = <<1000, 2000>>

\* a Running session whose first keystroke after the start came in second 2
C27_WitnessGap ==
    /\ app.state = "Running"
    /\ last.op = "on_key"
    /\ Stamps(app.wpm_history) = <<2000>>

\* the number of words on the first visual line of the App a
FirstLineWords(a) == Count(a.visual_lines[1], SP) + 1

\* the length of the prefix of RawInput that holds n typed words, each with
\* the space that closed it
RECURSIVE TypedSpan(_, _)
TypedSpan(input, n) ==
    IF n = 0 \/ input = <<>> THEN 0
    ELSE 1 + TypedSpan(Tail(input), IF Head(input) = SP THEN n - 1 ELSE n)

\* C28: an eviction retires the w whole words of the first visual line:
\* word_stream loses exactly its first w Words, furthest_word_idx drops by w,
\* word_stream_string loses those w target words with their separating
\* spaces, and RawInput loses the typed text of those w words with their w
\* spaces.
C28_EvictionLockstep ==
    last.evicted =>
        LET b == last.before
            w == FirstLineWords(b)
            texts == [i \in 1..w |-> b.word_stream[i].text]
        IN /\ w <= Len(b.word_stream)
           /\ app.word_stream = Drop(b.word_stream, w)
           /\ Len(app.word_stream) = Len(b.word_stream) - w
           /\ app.furthest_word_idx = b.furthest_word_idx - w
           /\ app.scrolled_word_count = b.scrolled_word_count + w
           /\ b.word_stream_string = Join(texts) \o <<SP>> \o app.word_stream_string
           /\ Count(Take(b.input, TypedSpan(b.input, w)), SP) = w
           /\ b.input = Take(b.input, TypedSpan(b.input, w)) \o app.input

\* an eviction retired a line of two words, while the cursor was two words
\* further on
C28_Witness ==
    /\ last.evicted
    /\ FirstLineWords(last.before) = 2
    /\ last.before.furthest_word_idx = 3
    /\ app.furthest_word_idx = 1
    /\ Len(last.before.input) = Len(app.input) + 4

\* C29: an eviction that retires w words re-bases missed_chars and
\* processed_word_errors by w: the entry at key k afterwards is the entry at
\* key k + w before, the entries of the retired words (key < w) are gone,
\* and each surviving entry still belongs to the same word of the stream.
C29_MapsRebased ==
    last.evicted =>
        LET b == last.before
            w == FirstLineWords(b)
        IN /\ DOMAIN app.missed_chars = {k - w : k \in {j \in DOMAIN b.missed_chars : j >= w}}
           /\ \A k \in DOMAIN app.missed_chars : app.missed_chars[k] = b.missed_chars[k + w]
           /\ app.processed_word_errors = {k - w : k \in {j \in b.processed_word_errors : j >= w}}
           /\ \A k \in DOMAIN app.missed_chars \cup app.processed_word_errors :
                 /\ k + w + 1 \in 1..Len(b.word_stream)
                 /\ app.word_stream[k + 1] = b.word_stream[k + w + 1]
           /\ \A k \in app.processed_word_errors :
                 /\ app.scrolled_word_count + k \in DOMAIN charges.charged
                 /\ charges.charged[app.scrolled_word_count + k] >= 1

\* an eviction of two words, the first of them charged an error, that leaves
\* on screen a word closed short and charged an error
C29_Witness ==
    /\ last.evicted
    /\ FirstLineWords(last.before) = 2
    /\ last.before.processed_word_errors = {0, 2}
    /\ DOMAIN last.before.missed_chars = {2}
    /\ app.processed_word_errors = {0}
    /\ DOMAIN app.missed_chars = {0}

\* the index of the visual line the cursor is on
CursorLine(a) == line_idx_for_cursor(a.visual_lines, Len(a.aligned_input))

\* the next character typed would be an extra one
AtExtraPosition(a) ==
    /\ a.state # "Finished"
    /\ CurrentWordIdx(a) < Len(a.word_stream)
    /\ Len(CurrentWord(a)) >= Len(a.word_stream[CurrentWordIdx(a) + 1].text)

\* C30: after an accepted extra-character keystroke the cursor's line index
\* in the re-wrapped visual_lines (taken before any eviction the keystroke
\* sets off) equals its line index before the keystroke.
C30_ExtraKeepsLine ==
    [][(/\ last'.op = "on_key"
        /\ last'.outcome = "accepted"
        /\ last'.key # SP
        /\ AtExtraPosition(app))
        => CursorLine(IF last'.evicted THEN last'.before ELSE app') = CursorLine(app)]_vars

\* C31: at a fixed terminal width the cursor is on visual line 0 or 1 after
\* every on_key call: a keystroke that brought it to line 2 had the first
\* line retired within the call, and the one eviction is enough.
C31_CursorOnFirstTwoLines ==
    last.op = "on_key"
        => /\ CursorLine(app) <= 1
           /\ last.evicted => /\ CursorLine(last.before) = 2
                               /\ CursorLine(app) = 1
                               /\ Len(app.visual_lines) = Len(last.before.visual_lines) - 1

\* a keystroke that brought the cursor to the third line and had the first
\* line retired
C31_Witness ==
    /\ last.op = "on_key"
    /\ last.evicted
    /\ CursorLine(last.before) = 2
    /\ CursorLine(app) = 1
    /\ app.scrolled_word_count >= 2

\* the characters of s at the positions whose mask entry is FALSE
RECURSIVE Unmasked(_, _)
Unmasked(s, mask) ==
    IF s = <<>> \/ mask = <<>> THEN <<>>
    ELSE (IF Head(mask) THEN <<>> ELSE <<Head(s)>>) \o Unmasked(Tail(s), Tail(mask))

\* the characters typed for word k beyond its target length, for a word that
\* a space follows in word_stream_string
TypedBeyond(k) ==
    IF k + 1 <= Len(Split(app.input)) /\ k + 1 < Len(app.word_stream)
    THEN Drop(TypedWord(k), Len(TargetWord(k)))
    ELSE <<>>

\* the target words from word k on, each followed by its extras, and the
\* mask that marks the extras
RECURSIVE DisplayFrom(_)
DisplayFrom(k) ==
    IF k >= Len(app.word_stream) THEN <<>>
    ELSE TargetWord(k) \o TypedBeyond(k)
           \o (IF k + 1 < Len(app.word_stream) THEN <<SP>> \o DisplayFrom(k + 1) ELSE <<>>)

RECURSIVE MaskFrom(_)
MaskFrom(k) ==
    IF k >= Len(app.word_stream) THEN <<>>
    ELSE [i \in 1..Len(TargetWord(k)) |-> FALSE] \o [i \in 1..Len(TypedBeyond(k)) |-> TRUE]
           \o (IF k + 1 < Len(app.word_stream) THEN <<FALSE>> \o MaskFrom(k + 1) ELSE <<>>)

\* every run of extras ends immediately before a non-extra space
RunsBeforeSpace ==
    \A i \in 1..Len(app.display_mask) :
        app.display_mask[i]
            => /\ i < Len(app.display_mask)
               /\ app.display_mask[i + 1] \/ app.display_string[i + 1] = SP

\* the session was ended by the time limit, which cuts the display
CutByTime == app.state = "Finished" /\ app.mode.kind = "Time"

\* C32 as stated, for every reachable state.
C32_Original ==
    /\ Len(app.display_mask) = Len(app.display_string)
    /\ Unmasked(app.display_string, app.display_mask) = app.word_stream_string
    /\ RunsBeforeSpace
    /\ app.extra_char_count = Count(app.display_mask, TRUE)

\* C32 amended: display_mask has one entry per display_string character and
\* extra_char_count is its number of true entries in every reachable state.
\* In every state but those of a session the time limit has ended,
\* deleting the mask = true positions gives word_stream_string, every run of
\* true positions ends before a non-extra space, and the display is the
\* target words, each word but the last of the stream followed by the
\* characters typed for it beyond its length, in order and marked true. In a
\* session the time limit has ended the display and the mask are the first
\* len(aligned_input) entries of that text.
C32_Amended ==
    /\ Len(app.display_mask) = Len(app.display_string)
    /\ app.extra_char_count = Count(app.display_mask, TRUE)
    /\ IF CutByTime
       THEN /\ app.display_string = Take(DisplayFrom(0), Len(app.aligned_input))
            /\ app.display_mask = Take(MaskFrom(0), Len(app.aligned_input))
       ELSE /\ Unmasked(app.display_string, app.display_mask) = app.word_stream_string
            /\ RunsBeforeSpace
            /\ app.display_string = DisplayFrom(0)
            /\ app.display_mask = MaskFrom(0)

\* a Running session with a run of two extras before the first space
C32_Witness ==
    /\ app.state = "Running"
    /\ app.extra_char_count = 2
    /\ app.display_mask[Len(TargetWord(0)) + 1]
    /\ app.display_mask[Len(TargetWord(0)) + 2]
    /\ app.display_string[Len(TargetWord(0)) + 3] = SP

\* word k of the stream was closed by a space with fewer characters than
\* its target
ClosedShort(k) ==
    /\ k < NumSpaces(app.input)
    /\ k < Len(app.word_stream)
    /\ Len(TypedWord(k)) < Len(TargetWord(k))

\* C33: missed_chars has an entry for word index k exactly when word k is
\* completed (k < number of spaces in RawInput) and was typed shorter than
\* its target, and the value is the target length minus the typed length; a
\* backspace over a word's boundary space removes that word's entry.
C33_MissedCharsExact ==
    /\ [](\A k \in (0..Len(app.word_stream)) \cup DOMAIN app.missed_chars :
            /\ k \in DOMAIN app.missed_chars <=> ClosedShort(k)
            /\ ClosedShort(k) => app.missed_chars[k] = Len(TargetWord(k)) - Len(TypedWord(k)))
    /\ [][(last'.op = "on_backspace" /\ EndsWithSpace(app.input) /\ app'.input # app.input)
            => /\ NumSpaces(app'.input) \notin DOMAIN app'.missed_chars
               /\ \A k \in DOMAIN app.missed_chars :
                     k # NumSpaces(app'.input)
                         => k \in DOMAIN app'.missed_chars /\ app'.missed_chars[k] = app.missed_chars[k]]_vars

\* a backspace has re-entered a word that had been closed one character
\* short, after an eviction
C33_Witness ==
    /\ last.op = "on_backspace"
    /\ app.input # <<>>
    /\ ~EndsWithSpace(app.input)
    /\ app.scrolled_word_count + NumSpaces(app.input) \in DOMAIN charges.closed
    /\ Len(CurrentWord(app)) + 1 = Len(TargetWord(NumSpaces(app.input)))
    /\ NumSpaces(app.input) \notin DOMAIN app.missed_chars
    /\ app.scrolled_word_count > 0

\* C34: wrap_into_lines never splits a word and is greedy: the lines joined
\* by single spaces are the text, a line is wider than the width only if it
\* is a single word, and the first word of every line after the first would
\* not have fitted, with its separating space, at the end of the line before.
C34_GreedyWrap ==
    last.op = "wrap_into_lines"
        => LET lines == last.outcome
               width == last.key.width
           IN /\ Join(lines) = last.key.text
              /\ \A i \in 1..Len(lines) :
                    /\ lines[i] # <<>>
                    /\ Len(lines[i]) <= width \/ Count(lines[i], SP) = 0
              /\ \A i \in 2..Len(lines) :
                    Len(lines[i - 1]) + 1 + Len(Split(lines[i])[1]) > width

\* a text wrapped at width 2 into a first line of one word wider than the
\* width and three lines of one word that fits
C34_Witness ==
    /\ last.op = "wrap_into_lines"
    /\ last.key.width = 2
    /\ last.outcome = <<<<"a", "b", "c">>, <<"a">>, <<"a", "b">>, <<"a">>>>

\* a text wrapped at width 4 with two words on its first line
C34_WitnessTwoWords ==
    /\ last.op = "wrap_into_lines"
    /\ last.key.width = 4
    /\ last.outcome = <<<<"a", SP, "a", "b">>, <<"a", "b", "c">>, <<"a">>>>

\* aligned_input without its sentinels
TypedOnly(aligned) == SelectSeq(aligned, LAMBDA c : c # NUL)

\* C35: in every reachable state aligned_input with the sentinels removed is
\* RawInput, extras typed on the last word of the stream and a trailing
\* space included.
C35_AlignedHoldsInput == TypedOnly(app.aligned_input) = app.input

\* while RawInput stays within the target text (fewer spaces than the stream
\* has words, and no extras on its last word) aligned_input without the
\* sentinels is RawInput
C35_WithinStream ==
    (/\ NumSpaces(app.input) < Len(app.word_stream)
     /\ NumSpaces(app.input) = Len(app.word_stream) - 1
          => Len(CurrentWord(app)) <= Len(TargetWord(NumSpaces(app.input))))
        => TypedOnly(app.aligned_input) = app.input

\* the character c typed in the state a falls on a target character of the
\* current word that it visually equals
HitsTarget(a, c) ==
    /\ CurrentWordIdx(a) < Len(a.word_stream)
    /\ Len(CurrentWord(a)) < Len(a.word_stream[CurrentWordIdx(a) + 1].text)
    /\ are_characters_visually_equal(c, a.word_stream[CurrentWordIdx(a) + 1].text[Len(CurrentWord(a)) + 1])

\* C36: live_correct_keystrokes + live_incorrect_keystrokes = gross_char_count
\* in every reachable state; an accepted keystroke adds one to
\* gross_char_count and to exactly one of the two live counters, a non-space
\* one to the correct counter exactly when its position in the current word
\* is below the target length and it visually equals the target character
\* there; a rejected keystroke and a backspace leave the three counters.
C36_KeystrokeTally ==
    /\ [](app.live_correct_keystrokes + app.live_incorrect_keystrokes = app.gross_char_count)
    /\ [][IF last'.op = "on_key" /\ last'.outcome = "accepted"
          THEN /\ app'.gross_char_count = app.gross_char_count + 1
               /\ \/ /\ app'.live_correct_keystrokes = app.live_correct_keystrokes + 1
                     /\ app'.live_incorrect_keystrokes = app.live_incorrect_keystrokes
                  \/ /\ app'.live_correct_keystrokes = app.live_correct_keystrokes
                     /\ app'.live_incorrect_keystrokes = app.live_incorrect_keystrokes + 1
               /\ last'.key # SP
                    => (app'.live_correct_keystrokes = app.live_correct_keystrokes + 1
                          <=> HitsTarget(app, last'.key))
          ELSE /\ app'.gross_char_count = app.gross_char_count
               /\ app'.live_correct_keystrokes = app.live_correct_keystrokes
               /\ app'.live_incorrect_keystrokes = app.live_incorrect_keystrokes]_vars

\* a hyphen typed for an em dash was counted correct, after two keystrokes
\* that were counted incorrect
C36_Witness ==
    /\ last.op = "on_key"
    /\ last.outcome = "accepted"
    /\ last.key = "-"
    /\ CurrentWord(app) = <<"-">>
    /\ NumSpaces(app.input) < Len(app.word_stream)
    /\ TargetWord(NumSpaces(app.input)) = <<"U+2014">>
    /\ app.live_correct_keystrokes = 1
    /\ app.live_incorrect_keystrokes = 2

\* the number of words of the session completed by a space
WordsClosed == app.scrolled_word_count + NumSpaces(app.input)

\* RawInput ends with the last word of a Words session, typed in full
LastWordTyped ==
    /\ WordsClosed + 1 = app.mode.n
    /\ NumSpaces(app.input) < Len(app.word_stream)
    /\ CurrentWord(app) = TargetWord(NumSpaces(app.input))

ClosedIdentical ==
    /\ EndsWithSpace(app.input)
    /\ NumSpaces(app.input) - 1 < Len(app.word_stream)
    /\ TypedWord(NumSpaces(app.input) - 1) = TargetWord(NumSpaces(app.input) - 1)

\* on_backspace has removed the last character of RawInput and, if it was a
\* space, re-entered the word before it
LastCharRemoved ==
    /\ app'.input = SubSeq(app.input, 1, Len(app.input) - 1)
    /\ EndsWithSpace(app.input)
         => \A i \in 1..Len(app.word_stream) :
               app'.word_stream[i] =
                  IF i = NumSpaces(app.input) THEN [app.word_stream[i] EXCEPT !.state = "Active"]
                  ELSE IF i = NumSpaces(app.input) + 1 THEN [app.word_stream[i] EXCEPT !.state = "Pending"]
                  ELSE app.word_stream[i]

\* C38 as stated: on_backspace changes nothing when RawInput ends with the
\* space of a word typed identically to its target, and in every other case
\* with non-empty RawInput removes the last character.
C38_Original ==
    [][last'.op = "on_backspace"
        => IF ClosedIdentical THEN app' = app
           ELSE app.input # <<>> => LastCharRemoved]_vars

\* C38 amended: the same, for a session that is not Finished; in a Finished
\* session on_backspace changes nothing.
C38_Amended ==
    [][last'.op = "on_backspace"
        => IF app.state = "Finished" \/ ClosedIdentical THEN app' = app
           ELSE app.input # <<>> => LastCharRemoved]_vars

\* a backspace has removed the space after a word typed with a wrong
\* character, and the word is Active again
C38_Witness ==
    /\ last.op = "on_backspace"
    /\ app.state = "Running"
    /\ app.input # <<>>
    /\ ~EndsWithSpace(app.input)
    /\ app.scrolled_word_count + NumSpaces(app.input) \in DOMAIN charges.closed
    /\ CurrentWord(app) # TargetWord(NumSpaces(app.input))
    /\ Len(CurrentWord(app)) = Len(TargetWord(NumSpaces(app.input)))
    /\ app.word_stream[NumSpaces(app.input) + 1].state = "Active"
    /\ app.word_stream[NumSpaces(app.input) + 2].state = "Pending"

\* the texts and indices of the words of the stream
StreamWords(a) == [i \in 1..Len(a.word_stream) |-> <<a.word_stream[i].text, a.word_stream[i].index>>]

\* C39: on_backspace leaves the session state, the start clock,
\* gross_char_count, the live keystroke counters, total_errors_ever,
\* processed_word_errors, the cumulative counters, the words of word_stream
\* and the snapshot series, retires no line, and on empty RawInput changes
\* nothing at all.
C39_BackspaceFrame ==
    [][last'.op = "on_backspace"
        => /\ app'.state = app.state
           /\ app'.start_time = app.start_time
           /\ app'.gross_char_count = app.gross_char_count
           /\ app'.live_correct_keystrokes = app.live_correct_keystrokes
           /\ app'.live_incorrect_keystrokes = app.live_incorrect_keystrokes
           /\ app'.total_errors_ever = app.total_errors_ever
           /\ app'.processed_word_errors = app.processed_word_errors
           /\ Counters(app') = Counters(app)
           /\ app'.acc_score_correct = app.acc_score_correct
           /\ app'.acc_score_incorrect = app.acc_score_incorrect
           /\ StreamWords(app') = StreamWords(app)
           /\ app'.word_stream_string = app.word_stream_string
           /\ Series(app') = Series(app)
           /\ app'.scrolled_word_count = app.scrolled_word_count
           /\ ~last'.evicted
           /\ app.input = <<>> => app' = app]_vars

\* a backspace has re-entered a word that was charged an error, after an
\* eviction that folded a faulty line into the cumulative counters
C39_Witness ==
    /\ last.op = "on_backspace"
    /\ app.state = "Running"
    /\ app.input # <<>>
    /\ ~EndsWithSpace(app.input)
    /\ NumSpaces(app.input) \in app.processed_word_errors
    /\ app.total_errors_ever >= 2
    /\ app.scrolled_word_count > 0
    /\ app.uncorrected_errors_scrolled > 0

\* C40: in every reachable state RawInput does not begin with a space and
\* holds no two consecutive spaces.
C40_NoEmptyTypedWord ==
    \A i \in 1..Len(app.input) :
        app.input[i] = SP => i > 1 /\ app.input[i - 1] # SP

\* as long as RawInput closes no more words than the stream holds, it does not
\* begin with a space and holds no two consecutive spaces
C40_WithinStream ==
    NumSpaces(app.input) <= Len(app.word_stream)
        => \A i \in 1..Len(app.input) : app.input[i] = SP => i > 1 /\ app.input[i - 1] # SP

====
